---- MODULE Spec2Model ----
(***************************************************************************)
(* A model of the Z-machine interpreter core of zirujauak/infocom:         *)
(* the memory map (memory.rs), the frame stack (state.rs), the object      *)
(* table (object_table.rs), the dictionary tokenizer (dictionary.rs) and   *)
(* the operand resolution of the opcode executor (instruction.rs).         *)
(*                                                                         *)
(* Results of fallible operations are records [ok |-> BOOLEAN, ...].  A     *)
(* Rust panic (index out of bounds, arithmetic overflow with overflow      *)
(* checks, unwrap of None) is the outcome "panic"; the process is gone     *)
(* after it and no further operation is taken.                             *)
(***************************************************************************)
EXTENDS Integers, Sequences, FiniteSets, TLC

VARIABLES
    memory_map,     \* MemoryMap.memory_map: address -> byte
    static_mark,    \* MemoryMap.static_mark, cached at load
    version,        \* MemoryMap.version, cached at load
    loaded,         \* history: the image as it was at load time
    current_frame,  \* FrameStack.current_frame
    stack,          \* FrameStack.stack: the inactive frames, oldest first
    calls,          \* history: the caller as it was when each pending call was made
    result          \* the last operation, its arguments and its outcome

vars == <<memory_map, static_mark, version, loaded, current_frame, stack, calls, result>>

(***************************************************************************)
(* Bytes and words                                                         *)
(***************************************************************************)
Bytes == 0..255

HighByte(w) == (w \div 256) % 256

LowByte(w) == w % 256

\* (((high as u16) << 8) & 0xFF00) | ((low as u16) & 0xFF)
MakeWord(high, low) == (high % 256) * 256 + (low % 256)

(***************************************************************************)
(* memory.rs: MemoryMap                                                    *)
(***************************************************************************)
\* MemoryMap::try_from: the static mark is the big-endian word at 0x0E
\* the value of F at x, x worked out once: the let of a language that
\* evaluates its bindings when it makes them
Bind(x, F(_)) == CHOOSE r \in {F(v) : v \in {x}} : TRUE

StaticMarkOf(data) == MakeWord(data[14], data[15])

\* a get_byte that reads zeros beyond the image
get_byte_unbounded(m, address) ==
    IF address <= 65535
    THEN [ok |-> TRUE, value |-> IF address \in DOMAIN m THEN m[address] ELSE 0]
    ELSE [ok |-> FALSE, error |-> "ReadViolation"]

\* MemoryMap::get_byte: restricted to the bottom 64k and to the image
get_byte(m, address) ==
    IF address <= 65535 /\ address \in DOMAIN m
    THEN [ok |-> TRUE, value |-> m[address]]
    ELSE [ok |-> FALSE, error |-> "ReadViolation"]

\* MemoryMap::get_word: two successive reads, high byte first
get_word(m, address) ==
    LET high == get_byte(m, address)
        low  == get_byte(m, address + 1)
    IN  IF ~high.ok THEN high
        ELSE IF ~low.ok THEN low
        ELSE [ok |-> TRUE, value |-> MakeWord(high.value, low.value)]

\* a set_byte that forgets the guard
set_byte_unguarded(m, mark, address, value) ==
    IF address \in DOMAIN m
    THEN [ok |-> TRUE, mem |-> [m EXCEPT ![address] = value]]
    ELSE [ok |-> FALSE, error |-> "WriteViolation", mem |-> m]

\* a set_byte that stores next to the address asked for
set_byte_shifted(m, mark, address, value) ==
    IF address < mark
    THEN [ok |-> TRUE,
          mem |-> IF address >= 1 THEN [m EXCEPT ![address - 1] = value] ELSE m]
    ELSE [ok |-> FALSE, error |-> "WriteViolation", mem |-> m]

\* MemoryMap::set_byte: a write is accepted only below the static mark
set_byte(m, mark, address, value) ==
    IF address < mark
    THEN [ok |-> TRUE, mem |-> [m EXCEPT ![address] = value]]
    ELSE [ok |-> FALSE, error |-> "WriteViolation", mem |-> m]

\* MemoryMap::set_word: two guarded byte writes; the second is not attempted
\* when the first fails, the first is not undone when the second fails
set_word(m, mark, address, value) ==
    LET first == set_byte(m, mark, address, HighByte(value))
    IN  IF ~first.ok THEN first
        ELSE set_byte(first.mem, mark, address + 1, LowByte(value))

(***************************************************************************)
(* The memory map on its own: an image of MemLen bytes whose static mark   *)
(* lies near its end, written and read around the mark and the end.        *)
(***************************************************************************)
MemLen == 68

MemMarks == {MemLen - 2, MemLen}

MemAddrs == {15} \cup ((MemLen - 4)..(MemLen + 1))

MemByteValues == {165}

MemWordValues == {4773}

\* a version 3 story file: header fields, then filler no write repeats
MemImage(mark) ==
    [a \in 0..(MemLen - 1) |->
        IF a = 0 THEN 3
        ELSE IF a = 14 THEN HighByte(mark)
        ELSE IF a = 15 THEN LowByte(mark)
        ELSE (a * 7 + 1) % 256]

NoFrame ==
    [routine |-> [address |-> 0, default_variables |-> <<>>, instruction_address |-> 0],
     local_variables |-> <<>>, stack |-> <<>>, pc |-> 0,
     return_variable |-> -1, return_address |-> 0]

\* MemoryMap::try_from(data)
Load(data) ==
    /\ memory_map = data
    /\ static_mark = StaticMarkOf(data)
    /\ version = data[0]
    /\ loaded = data

Init ==
    /\ \E mark \in MemMarks : Load(MemImage(mark))
    /\ current_frame = NoFrame
    /\ stack = <<>>
    /\ calls = <<>>
    /\ result = [op |-> "load", ok |-> TRUE]

SetByte(a, v) ==
    LET r == set_byte(memory_map, static_mark, a, v)
    IN  /\ memory_map' = r.mem
        /\ result' = [op |-> "set_byte", address |-> a, value |-> v, ok |-> r.ok,
                      before |-> memory_map]
        /\ UNCHANGED <<static_mark, version, loaded, current_frame, stack, calls>>

SetWord(a, w) ==
    LET r == set_word(memory_map, static_mark, a, w)
    IN  /\ memory_map' = r.mem
        /\ result' = [op |-> "set_word", address |-> a, value |-> w, ok |-> r.ok,
                      before |-> memory_map]
        /\ UNCHANGED <<static_mark, version, loaded, current_frame, stack, calls>>

GetByte(a) ==
    LET r == get_byte(memory_map, a)
    IN  /\ result' = [op |-> "get_byte", address |-> a, ok |-> r.ok,
                      value |-> IF r.ok THEN r.value ELSE -1, before |-> memory_map]
        /\ UNCHANGED <<memory_map, static_mark, version, loaded, current_frame, stack, calls>>

GetWord(a) ==
    LET r == get_word(memory_map, a)
    IN  /\ result' = [op |-> "get_word", address |-> a, ok |-> r.ok,
                      value |-> IF r.ok THEN r.value ELSE -1, before |-> memory_map]
        /\ UNCHANGED <<memory_map, static_mark, version, loaded, current_frame, stack, calls>>

Next ==
    \/ \E a \in MemAddrs, v \in MemByteValues : SetByte(a, v)
    \/ \E a \in MemAddrs, w \in MemWordValues : SetWord(a, w)
    \/ \E a \in MemAddrs : GetByte(a)
    \/ \E a \in MemAddrs : GetWord(a)

Spec == Init /\ [][Next]_vars

\* C1: a byte write is accepted only below the static mark: set_byte(a, v)
\* with a >= M fails with WriteViolation and leaves memory as it was, and
\* whatever set_byte / set_word calls were made, every byte at an address
\* >= M still has its load-time value.
C1_StaticNeverWritten ==
    /\ \A a \in DOMAIN memory_map : a >= static_mark => memory_map[a] = loaded[a]
    /\ result.op = "set_byte" =>
          /\ result.ok <=> result.address < static_mark
          /\ result.address >= static_mark => memory_map = result.before

\* a write at or above the mark was attempted and refused
C1_Witness ==
    /\ result.op = "set_byte"
    /\ result.address >= static_mark
    /\ result.address \in DOMAIN memory_map
    /\ ~result.ok
    /\ \E a \in DOMAIN memory_map : memory_map[a] # loaded[a]

\* C6: for a < M, get_byte(a) right after set_byte(a, v) returns v; for
\* a + 1 < M, get_word(a) right after set_word(a, w) returns w, the high
\* byte stored at a and the low byte at a + 1.
C6_ReadBackWritten ==
    /\ (result.op = "set_byte" /\ result.address < static_mark) =>
          /\ result.ok
          /\ get_byte(memory_map, result.address) = [ok |-> TRUE, value |-> result.value]
    /\ (result.op = "set_word" /\ result.address + 1 < static_mark) =>
          /\ result.ok
          /\ get_word(memory_map, result.address) = [ok |-> TRUE, value |-> result.value]
          /\ memory_map[result.address] = HighByte(result.value)
          /\ memory_map[result.address + 1] = LowByte(result.value)

\* a word was stored wholly below the mark
C6_Witness ==
    /\ result.op = "set_word"
    /\ result.address + 1 < static_mark
    /\ result.ok
    /\ memory_map # result.before

(***************************************************************************)
(* state.rs: Routine, Frame, FrameStack                                    *)
(***************************************************************************)
\* Option<u8>::None for Frame.return_variable
None == -1

\* main.rs initialises the logger at Level::Debug, so the arguments of every
\* debug! line are evaluated
DebugLogging == TRUE

\* read_byte / read_word of state.rs index the image directly: out of
\* range is a panic, not an error
InImage(m, first, last) == \A a \in first..last : a \in DOMAIN m

\* Routine::new
RoutineNew(m, ver, address) ==
    IF ~InImage(m, address, address) THEN [ok |-> FALSE, panic |-> TRUE]
    ELSE
    LET variable_count == m[address]
    IN  IF ver \in 1..4
        THEN IF ~InImage(m, address + 1, address + 2 * variable_count)
             THEN [ok |-> FALSE, panic |-> TRUE]
             ELSE [ok |-> TRUE,
                   routine |->
                     [address |-> address,
                      default_variables |->
                        [i \in 1..variable_count |->
                            MakeWord(m[address + 1 + (i - 1) * 2],
                                     m[address + 2 + (i - 1) * 2])],
                      instruction_address |-> address + 1 + 2 * variable_count]]
        ELSE [ok |-> TRUE,
              routine |->
                [address |-> address,
                 default_variables |-> [i \in 1..variable_count |-> 0],
                 instruction_address |-> address + 1]]

\* a Frame::new whose evaluation stack does not start empty
FrameNewSharedStack(routine, arguments, return_variable, return_address) ==
    IF Len(arguments) > Len(routine.default_variables)
    THEN [ok |-> FALSE, panic |-> TRUE]
    ELSE [ok |-> TRUE,
          frame |->
            [routine |-> routine,
             local_variables |->
               [i \in 1..Len(routine.default_variables) |->
                   IF i <= Len(arguments) THEN arguments[i]
                   ELSE routine.default_variables[i]],
             stack |-> <<return_address>>,
             pc |-> routine.instruction_address,
             return_variable |-> return_variable,
             return_address |-> return_address]]

\* Frame::new: local_variables[i] = *arg indexes the locals vector, so an
\* argument beyond the routine's local count is an index-out-of-bounds panic
FrameNew(routine, arguments, return_variable, return_address) ==
    IF Len(arguments) > Len(routine.default_variables)
    THEN [ok |-> FALSE, panic |-> TRUE]
    ELSE [ok |-> TRUE,
          frame |->
            [routine |-> routine,
             local_variables |->
               [i \in 1..Len(routine.default_variables) |->
                   IF i <= Len(arguments) THEN arguments[i]
                   ELSE routine.default_variables[i]],
             stack |-> <<>>,
             pc |-> routine.instruction_address,
             return_variable |-> return_variable,
             return_address |-> return_address]]

\* Frame::push
FramePush(f, value) == [f EXCEPT !.stack = Append(@, value)]

\* Frame::peek
FramePeek(f) ==
    IF Len(f.stack) > 0
    THEN [ok |-> TRUE, panic |-> FALSE, value |-> f.stack[Len(f.stack)]]
    ELSE [ok |-> FALSE, panic |-> FALSE, error |-> "Peek into empty stack"]

\* Frame::pop
FramePop(f) ==
    IF Len(f.stack) > 0
    THEN [ok |-> TRUE, panic |-> FALSE, value |-> f.stack[Len(f.stack)],
          frame |-> [f EXCEPT !.stack = SubSeq(@, 1, Len(@) - 1)]]
    ELSE [ok |-> FALSE, panic |-> FALSE, error |-> "Pop from empty stack"]

\* FrameStack::new: global_variable_table_address is the word at 0x0C
GlobalsBase(data) == MakeWord(data[12], data[13])

\* FrameStack::new: the first frame has no locals and starts at the word at 0x06
FirstFrame(data) ==
    LET pc == MakeWord(data[6], data[7])
    IN  [routine |-> [address |-> pc, default_variables |-> <<>>,
                      instruction_address |-> pc],
         local_variables |-> <<>>, stack |-> <<>>, pc |-> pc,
         return_variable |-> None, return_address |-> 0]

\* FrameStack::unpack_address
unpack_address(ver, packed_address) ==
    IF ver \in {1, 2, 3} THEN [ok |-> TRUE, value |-> packed_address * 2]
    ELSE IF ver \in {4, 5} THEN [ok |-> TRUE, value |-> packed_address * 4]
    ELSE IF ver = 8 THEN [ok |-> TRUE, value |-> packed_address * 8]
    ELSE [ok |-> FALSE, error |-> "Unimplemented version"]

\* FrameStack::get_variable on the state fs = [mem, mark, gvt, cur, stk].
\* The debug! line of each arm runs first: it peeks the stack (an error on
\* an empty one), unwraps the local (a panic on a missing one), reads the
\* global.
get_variable(fs, variable_number, indirect) ==
    IF variable_number = 0
    THEN LET logged == FramePeek(fs.cur)
         IN  IF DebugLogging /\ ~logged.ok
             THEN [ok |-> FALSE, panic |-> FALSE, fs |-> fs]
             ELSE IF indirect
             THEN LET r == FramePeek(fs.cur)
                  IN  IF r.ok THEN [ok |-> TRUE, panic |-> FALSE, value |-> r.value, fs |-> fs]
                      ELSE [ok |-> FALSE, panic |-> FALSE, fs |-> fs]
             ELSE LET r == FramePop(fs.cur)
                  IN  IF r.ok
                      THEN [ok |-> TRUE, panic |-> FALSE, value |-> r.value,
                            fs |-> [fs EXCEPT !.cur = r.frame]]
                      ELSE [ok |-> FALSE, panic |-> FALSE, fs |-> fs]
    ELSE IF variable_number \in 1..15
    THEN IF variable_number <= Len(fs.cur.local_variables)
         THEN [ok |-> TRUE, panic |-> FALSE,
               value |-> fs.cur.local_variables[variable_number], fs |-> fs]
         ELSE [ok |-> FALSE, panic |-> DebugLogging, fs |-> fs]
    ELSE LET r == get_word(fs.mem, fs.gvt + (variable_number - 16) * 2)
         IN  IF r.ok THEN [ok |-> TRUE, panic |-> FALSE, value |-> r.value, fs |-> fs]
             ELSE [ok |-> FALSE, panic |-> FALSE, fs |-> fs]

\* FrameStack::set_variable
set_variable(fs, variable_number, value, indirect) ==
    IF variable_number = 0
    THEN LET popped == FramePop(fs.cur)
         IN  IF indirect /\ ~popped.ok
             THEN [ok |-> FALSE, panic |-> FALSE, fs |-> fs]
             ELSE [ok |-> TRUE, panic |-> FALSE,
                   fs |-> [fs EXCEPT !.cur =
                              FramePush(IF indirect THEN popped.frame ELSE fs.cur, value)]]
    ELSE IF variable_number \in 1..15
    THEN IF Len(fs.cur.local_variables) >= variable_number
         THEN [ok |-> TRUE, panic |-> FALSE,
               fs |-> [fs EXCEPT !.cur.local_variables[variable_number] = value]]
         ELSE [ok |-> FALSE, panic |-> FALSE, fs |-> fs]
    ELSE LET r == set_word(fs.mem, fs.mark, fs.gvt + (variable_number - 16) * 2, value)
         IN  [ok |-> r.ok, panic |-> FALSE, fs |-> [fs EXCEPT !.mem = r.mem]]

\* a call that stores nothing when the packed address is 0
call_zero_unstored(fs, ver, packed_address, arguments, return_variable, return_address) ==
    IF packed_address = 0
    THEN [ok |-> TRUE, panic |-> FALSE, value |-> return_address, fs |-> fs]
    ELSE LET address == unpack_address(ver, packed_address)
         IN  IF ~address.ok
             THEN [ok |-> FALSE, panic |-> FALSE, value |-> -1, fs |-> fs]
             ELSE
             LET routine == RoutineNew(fs.mem, ver, address.value)
             IN  IF ~routine.ok
                 THEN [ok |-> FALSE, panic |-> TRUE, value |-> -1, fs |-> fs]
                 ELSE
                 LET pushed == [fs EXCEPT !.stk = Append(@, fs.cur)]
                     frame == FrameNew(routine.routine, arguments, return_variable,
                                       return_address)
                 IN  IF ~frame.ok
                     THEN [ok |-> FALSE, panic |-> TRUE, value |-> -1, fs |-> pushed]
                     ELSE [ok |-> TRUE, panic |-> FALSE, value |-> frame.frame.pc,
                           fs |-> [pushed EXCEPT !.cur = frame.frame]]

\* FrameStack::call
call(fs, ver, packed_address, arguments, return_variable, return_address) ==
    IF packed_address = 0
    THEN IF return_variable # None
         THEN LET r == set_variable(fs, return_variable, 0, FALSE)
              IN  [ok |-> r.ok, panic |-> FALSE,
                   value |-> IF r.ok THEN return_address ELSE -1, fs |-> r.fs]
         ELSE [ok |-> TRUE, panic |-> FALSE, value |-> return_address, fs |-> fs]
    ELSE LET address == unpack_address(ver, packed_address)
         IN  IF ~address.ok
             THEN [ok |-> FALSE, panic |-> FALSE, value |-> -1, fs |-> fs]
             ELSE
             LET routine == RoutineNew(fs.mem, ver, address.value)
             IN  IF ~routine.ok
                 THEN [ok |-> FALSE, panic |-> TRUE, value |-> -1, fs |-> fs]
                 ELSE
                 LET pushed == [fs EXCEPT !.stk = Append(@, fs.cur)]
                     frame == FrameNew(routine.routine, arguments, return_variable,
                                       return_address)
                 IN  IF ~frame.ok
                     THEN [ok |-> FALSE, panic |-> TRUE, value |-> -1, fs |-> pushed]
                     ELSE [ok |-> TRUE, panic |-> FALSE, value |-> frame.frame.pc,
                           fs |-> [pushed EXCEPT !.cur = frame.frame]]

\* a return_from that forgets to store the value
return_from_no_store(fs, return_value) ==
    IF Len(fs.stk) = 0
    THEN [ok |-> FALSE, panic |-> TRUE, value |-> -1, fs |-> fs]
    ELSE [ok |-> TRUE, panic |-> FALSE, value |-> fs.cur.return_address,
          fs |-> [fs EXCEPT !.cur = fs.stk[Len(fs.stk)],
                            !.stk = SubSeq(@, 1, Len(@) - 1)]]

\* FrameStack::return_from: self.stack.remove(len - 1) panics on an empty
\* stack; the caller is current again before the value is stored
return_from(fs, return_value) ==
    IF Len(fs.stk) = 0
    THEN [ok |-> FALSE, panic |-> TRUE, value |-> -1, fs |-> fs]
    ELSE LET return_variable == fs.cur.return_variable
             return_address == fs.cur.return_address
             popped == [fs EXCEPT !.cur = fs.stk[Len(fs.stk)],
                                  !.stk = SubSeq(@, 1, Len(@) - 1)]
         IN  IF return_variable # None
             THEN LET r == set_variable(popped, return_variable, return_value, FALSE)
                  IN  [ok |-> r.ok, panic |-> FALSE,
                       value |-> IF r.ok THEN return_address ELSE -1, fs |-> r.fs]
             ELSE [ok |-> TRUE, panic |-> FALSE, value |-> return_address, fs |-> popped]

(***************************************************************************)
(* The frame stack: calls, returns and variable accesses on a small story  *)
(* file with two globals below the static mark and a routine of two        *)
(* locals.                                                                 *)
(***************************************************************************)
MaxDepth == 2

MaxStack == 1

FrameVersions == {3, 5}

\* 18 and 36 unpack to 36 and 72 in version 3, to 72 and 144 in version 5
PackedAddresses == {18, 36}

ArgLists == {<<>>, <<161>>}

ReturnVariables == {None, 0, 1, 16}

ReturnAddresses == {4660}

FrameValues == {21845}

VariableNumbers == {0, 1, 16, 18}

\* header, globals 16 and 17 at 64, the static mark and an empty dictionary
\* at 68, a routine with locals $00d1 and $00d2 at 72; bytes 36 and 144 are
\* 0, routines without locals
FrameImage(ver) ==
    [a \in 0..147 |->
        IF a = 0 THEN ver
        ELSE IF a = 7 THEN 77
        ELSE IF a = 9 THEN 68
        ELSE IF a = 13 THEN 64
        ELSE IF a = 15 THEN 68
        ELSE IF a = 64 THEN 16
        ELSE IF a = 65 THEN 22
        ELSE IF a = 69 THEN 4
        ELSE IF a = 72 THEN 2
        ELSE IF a = 74 THEN 209
        ELSE IF a = 76 THEN 210
        ELSE 0]

\* the process is gone after a panic
Panicked == result.panic

FsState ==
    [mem |-> memory_map, mark |-> static_mark, gvt |-> GlobalsBase(loaded),
     cur |-> current_frame, stk |-> stack]

FsApply(fs) ==
    /\ memory_map' = fs.mem
    /\ current_frame' = fs.cur
    /\ stack' = fs.stk
    /\ Len(fs.cur.stack) <= MaxStack
    /\ UNCHANGED <<static_mark, version, loaded>>

InitFrames ==
    /\ \E ver \in FrameVersions :
          /\ Load(FrameImage(ver))
          /\ current_frame = FirstFrame(FrameImage(ver))
    /\ stack = <<>>
    /\ calls = <<>>
    /\ result = [op |-> "new", ok |-> TRUE, panic |-> FALSE]

Call(packed_address, arguments, return_variable, return_address) ==
    LET r == call(FsState, version, packed_address, arguments, return_variable,
                  return_address)
    IN  /\ ~Panicked
        /\ packed_address # 0 => Len(stack) < MaxDepth
        /\ FsApply(r.fs)
        /\ calls' = IF r.ok /\ packed_address # 0
                    THEN Append(calls, [frame |-> current_frame, below |-> stack,
                                        return_variable |-> return_variable,
                                        return_address |-> return_address])
                    ELSE calls
        /\ result' = [op |-> "call", ok |-> r.ok, panic |-> r.panic, value |-> r.value,
                      packed_address |-> packed_address, arguments |-> arguments,
                      return_variable |-> return_variable,
                      return_address |-> return_address]

ReturnFrom(return_value) ==
    LET r == return_from(FsState, return_value)
    IN  /\ ~Panicked
        /\ FsApply(r.fs)
        /\ calls' = IF calls # <<>> THEN SubSeq(calls, 1, Len(calls) - 1) ELSE calls
        /\ result' = [op |-> "return_from", ok |-> r.ok, panic |-> r.panic,
                      value |-> r.value, return_value |-> return_value,
                      pending |-> IF calls # <<>> THEN <<calls[Len(calls)]>> ELSE <<>>]

GetVariable(variable_number, indirect) ==
    LET r == get_variable(FsState, variable_number, indirect)
    IN  /\ ~Panicked
        /\ FsApply(r.fs)
        /\ UNCHANGED calls
        /\ result' = [op |-> "get_variable", ok |-> r.ok, panic |-> r.panic,
                      value |-> IF r.ok THEN r.value ELSE -1,
                      variable_number |-> variable_number, indirect |-> indirect,
                      before |-> current_frame.stack]

SetVariable(variable_number, value, indirect) ==
    LET r == set_variable(FsState, variable_number, value, indirect)
    IN  /\ ~Panicked
        /\ FsApply(r.fs)
        /\ UNCHANGED calls
        /\ result' = [op |-> "set_variable", ok |-> r.ok, panic |-> r.panic,
                      value |-> value,
                      variable_number |-> variable_number, indirect |-> indirect,
                      before |-> current_frame.stack]

NextFrames ==
    \/ \E p \in PackedAddresses, args \in ArgLists, rv \in ReturnVariables,
          ra \in ReturnAddresses : Call(p, args, rv, ra)
    \/ \E v \in FrameValues : ReturnFrom(v)
    \/ \E k \in VariableNumbers, ind \in BOOLEAN : GetVariable(k, ind)
    \/ \E k \in VariableNumbers, v \in FrameValues, ind \in BOOLEAN :
          SetVariable(k, v, ind)

SpecFrames == InitFrames /\ [][NextFrames]_vars

\* the inactive frames are the callers as they were when they called
FramesKept ==
    ~Panicked =>
    /\ Len(stack) = Len(calls)
    /\ \A i \in 1..Len(calls) : stack[i] = calls[i].frame

\* C2: after call(packed # 0, args, var, ret) and a later return_from(v) that
\* ends that call, the caller's locals and evaluation stack are what they
\* were right before the call, apart from v written to var; var holds v; the
\* frame depth is what it was before the call; the PC returned is ret.
C2_CallReturnRestores ==
    (result.op = "return_from" /\ result.ok) =>
        /\ result.pending # <<>>
        /\ LET c == result.pending[1]
               v == result.return_value
               var == c.return_variable
           IN  /\ result.value = c.return_address
               /\ stack = c.below
               /\ Len(stack) = Len(c.below)
               /\ current_frame =
                     IF var = 0 THEN [c.frame EXCEPT !.stack = Append(@, v)]
                     ELSE IF var \in 1..15
                     THEN [c.frame EXCEPT !.local_variables[var] = v]
                     ELSE c.frame
               /\ var # None =>
                     /\ get_variable(FsState, var, TRUE).ok
                     /\ get_variable(FsState, var, TRUE).value = v

\* a nested call made by a routine with locals and a non-empty evaluation
\* stack has returned into its first local
C2_Witness ==
    /\ result.op = "return_from"
    /\ result.ok
    /\ result.pending # <<>>
    /\ result.pending[1].return_variable = 1
    /\ result.pending[1].frame.stack # <<>>
    /\ result.pending[1].frame.local_variables # <<>>
    /\ Len(stack) = 1

\* C9: a new frame starts with an empty evaluation stack of its own; reading
\* or writing variable 0 in the callee neither reads nor changes a caller's
\* stack; a pop or peek on the callee's empty stack fails with an error.
C9_OwnEvaluationStack ==
    /\ (result.op = "call" /\ result.ok /\ result.packed_address # 0) =>
          current_frame.stack = <<>>
    /\ FramesKept
    /\ (result.op = "get_variable" /\ result.variable_number = 0) =>
          IF result.before = <<>>
          THEN ~result.ok /\ ~result.panic /\ current_frame.stack = <<>>
          ELSE /\ result.ok
               /\ result.value = result.before[Len(result.before)]
               /\ current_frame.stack =
                     IF result.indirect THEN result.before
                     ELSE SubSeq(result.before, 1, Len(result.before) - 1)
    /\ (result.op = "set_variable" /\ result.variable_number = 0) =>
          IF result.indirect /\ result.before = <<>>
          THEN ~result.ok /\ ~result.panic /\ current_frame.stack = <<>>
          ELSE /\ result.ok
               /\ current_frame.stack =
                     Append(IF result.indirect
                            THEN SubSeq(result.before, 1, Len(result.before) - 1)
                            ELSE result.before, result.value)

\* the callee popped its empty stack while its caller's stack held a value
C9_Witness ==
    /\ result.op = "get_variable"
    /\ result.variable_number = 0
    /\ ~result.indirect
    /\ result.before = <<>>
    /\ ~result.ok
    /\ stack # <<>>
    /\ stack[Len(stack)].stack # <<>>

\* C10: a call with a nonzero packed address builds the callee's locals with
\* exactly local_count entries (the defaults of the image in versions 1-4,
\* zeros in version 5 and later), overwrites the first len(args) of them
\* with the arguments, drops any argument beyond local_count without
\* failing, and starts at addr + 1 + 2 * local_count (versions 1-4) or
\* addr + 1 (version 5 and later).
C10_CallBuildsLocals ==
    (result.op = "call" /\ result.packed_address # 0) =>
        LET addr == unpack_address(version, result.packed_address).value
            local_count == memory_map[addr]
            args == result.arguments
        IN  /\ result.ok
            /\ Len(current_frame.local_variables) = local_count
            /\ \A i \in 1..local_count :
                  current_frame.local_variables[i] =
                      IF i <= Len(args) THEN args[i]
                      ELSE IF version <= 4
                      THEN get_word(memory_map, addr + 1 + 2 * (i - 1)).value
                      ELSE 0
            /\ current_frame.pc =
                  IF version <= 4 THEN addr + 1 + 2 * local_count ELSE addr + 1
            /\ result.value = current_frame.pc

(***************************************************************************)
(* object_table.rs: Object, ObjectTable (the record layout of versions     *)
(* 1-3, the only versions the executor accepts)                            *)
(*                                                                         *)
(* An operation's outcome is "ok", "err" (it returned Err), "panic" or     *)
(* "hang" (it never returns).  The u64 attribute flags are the set of the  *)
(* positions of their 1 bits, bit 0 the least significant.                 *)
(*                                                                         *)
(* `checks` tells whether the build has arithmetic overflow checks: with   *)
(* them usize underflow is a panic, without them it wraps.                 *)
(***************************************************************************)
NoObject ==
    [number |-> 0, address |-> 0, attributes |-> {}, parent |-> 0, sibling |-> 0,
     child |-> 0, property_table |-> 0]

BitsOfWord(w, low) == {low + i : i \in {j \in 0..15 : (w \div (2 ^ j)) % 2 = 1}}

RECURSIVE WordOfBits(_, _)
WordOfBits(bits, low) ==
    IF bits \cap (low..(low + 15)) = {} THEN 0
    ELSE LET b == CHOOSE x \in bits \cap (low..(low + 15)) : TRUE
         IN  2 ^ (b - low) + WordOfBits(bits \ {b}, low)

\* read_zbytes of text.rs: words are taken up to the one with the top bit
\* set; the image is indexed directly, so running off its end is a panic
RECURSIVE ZBytesReadable(_, _)
ZBytesReadable(m, address) ==
    IF ~InImage(m, address, address + 1) THEN FALSE
    ELSE IF m[address] >= 128 THEN TRUE
    ELSE ZBytesReadable(m, address + 2)

\* Property::load, repeated by the loop of PropertyTable::load: TRUE when
\* every size byte and data byte up to the terminating 0 can be read
RECURSIVE PropertiesReadable(_, _)
PropertiesReadable(m, prop_addr) ==
    LET size_byte == get_byte(m, prop_addr)
    IN  IF ~size_byte.ok THEN FALSE
        ELSE IF size_byte.value = 0 THEN TRUE
        ELSE LET size == (size_byte.value \div 32) + 1
             IN  /\ \A i \in 0..(size - 1) : get_byte(m, prop_addr + 1 + i).ok
                 /\ PropertiesReadable(m, prop_addr + 1 + size)

\* PropertyTable::load, as far as its outcome goes.  The objects of the
\* images below have an empty short name, so the name is never decoded.
PropertyTableLoad(m, address) ==
    LET short_name_size == get_byte(m, address)
    IN  IF ~short_name_size.ok THEN "err"
        ELSE IF short_name_size.value > 0 /\ ~ZBytesReadable(m, address + 1) THEN "panic"
        ELSE IF PropertiesReadable(m, address + 1 + short_name_size.value * 2) THEN "ok"
        ELSE "err"

\* Object::load
ObjectLoad(m, number, address) ==
    LET attr_1 == get_word(m, address)
        attr_2 == get_word(m, address + 2)
        parent == get_byte(m, address + 4)
        sibling == get_byte(m, address + 5)
        child == get_byte(m, address + 6)
        prop_addr == get_word(m, address + 7)
    IN  IF ~attr_1.ok \/ ~attr_2.ok \/ ~parent.ok \/ ~sibling.ok \/ ~child.ok
           \/ ~prop_addr.ok
        THEN [outcome |-> "err", object |-> NoObject]
        ELSE IF PropertyTableLoad(m, prop_addr.value) # "ok"
        THEN [outcome |-> PropertyTableLoad(m, prop_addr.value), object |-> NoObject]
        ELSE [outcome |-> "ok",
              object |->
                [number |-> number, address |-> address,
                 attributes |-> BitsOfWord(attr_1.value, 16) \cup BitsOfWord(attr_2.value, 0),
                 parent |-> parent.value, sibling |-> sibling.value,
                 child |-> child.value, property_table |-> prop_addr.value]]

\* Object::save_family: three guarded byte writes, given up at the first
\* one that fails
save_family(m, mark, o) ==
    LET first == set_byte(m, mark, o.address + 4, o.parent % 256)
        second == set_byte(first.mem, mark, o.address + 5, o.sibling % 256)
        third == set_byte(second.mem, mark, o.address + 6, o.child % 256)
    IN  IF ~first.ok THEN [ok |-> FALSE, mem |-> first.mem]
        ELSE IF ~second.ok THEN [ok |-> FALSE, mem |-> second.mem]
        ELSE [ok |-> third.ok, mem |-> third.mem]

\* Object::save_attributes
save_attributes(m, mark, o) ==
    LET first == set_word(m, mark, o.address, WordOfBits(o.attributes, 16))
    IN  IF ~first.ok THEN [ok |-> FALSE, mem |-> first.mem]
        ELSE LET second == set_word(first.mem, mark, o.address + 2,
                                    WordOfBits(o.attributes, 0))
             IN  [ok |-> second.ok, mem |-> second.mem]

\* the mask 1 << (attribute_count - attribute - 1) of Object::set_attribute
\* and Object::clear_attribute, which both let attribute = attribute_count
\* through: the subtraction underflows, a panic with overflow checks, a
\* shift by 63 (the amount is taken modulo 64) without them
AttributeBit(attribute, checks) ==
    IF 32 - attribute - 1 >= 0 THEN [panic |-> FALSE, bit |-> 32 - attribute - 1]
    ELSE IF checks THEN [panic |-> TRUE, bit |-> 0]
    ELSE [panic |-> FALSE, bit |-> 63]

\* Object::set_attribute
ObjectSetAttribute(o, attribute, checks) ==
    IF attribute <= 32
    THEN LET mask == AttributeBit(attribute, checks)
         IN  IF mask.panic THEN [outcome |-> "panic", object |-> o]
             ELSE [outcome |-> "ok",
                   object |-> [o EXCEPT !.attributes = @ \cup {mask.bit}]]
    ELSE [outcome |-> "ok", object |-> o]

ObjectClearAttribute_short(o, attribute, checks) ==
    IF attribute <= 32
    THEN LET bit == AttributeBit(attribute, checks)
         IN  IF bit.panic THEN [outcome |-> "panic", object |-> o]
             ELSE [outcome |-> "ok",
                   object |-> [o EXCEPT !.attributes = @ \cap ((0..23) \ {bit.bit})]]
    ELSE [outcome |-> "ok", object |-> o]

\* Object::clear_attribute: attribute_count / 8 bytes of ones, the bit
\* flipped, and-ed onto the flags
ObjectClearAttribute(o, attribute, checks) ==
    IF attribute <= 32
    THEN LET bit == AttributeBit(attribute, checks)
             mask == IF bit.bit \in 0..31 THEN (0..31) \ {bit.bit}
                     ELSE (0..31) \cup {bit.bit}
         IN  IF bit.panic THEN [outcome |-> "panic", object |-> o]
             ELSE [outcome |-> "ok",
                   object |-> [o EXCEPT !.attributes = @ \cap mask]]
    ELSE [outcome |-> "ok", object |-> o]

\* attribute_count as Object::load sets it
AttributeCount(ver) == IF ver \in {1, 2, 3} THEN 32 ELSE 48

ObjectHasAttribute_lsb(attributes, attribute_count, attribute, checks) ==
    IF attribute <= attribute_count
    THEN [outcome |-> "ok", value |-> attribute \in attributes]
    ELSE [outcome |-> "err", value |-> FALSE]

\* Object::has_attribute on the flags of an object: like the two above it
\* lets attribute = attribute_count through, to a panic or a shift by 63
ObjectHasAttribute(attributes, attribute_count, attribute, checks) ==
    IF attribute <= attribute_count
    THEN IF attribute_count - attribute - 1 >= 0
         THEN [outcome |-> "ok",
               value |-> (attribute_count - attribute - 1) \in attributes]
         ELSE IF checks THEN [outcome |-> "panic", value |-> FALSE]
         ELSE [outcome |-> "ok", value |-> 63 \in attributes]
    ELSE [outcome |-> "err", value |-> FALSE]

\* ObjectTable::new: the table's address is the word at 0x0a
ObjectTableAddress(data) == MakeWord(data[10], data[11])

\* ObjectTable::get_object: object_number - 1 underflows for object 0
get_object(m, base, object_number, checks) ==
    IF object_number = 0 /\ checks
    THEN [outcome |-> "panic", object |-> NoObject]
    ELSE ObjectLoad(m, object_number, base + 62 + (object_number - 1) * 9)

\* the loop of remove_object that looks for the sibling before
\* object_number, starting at `number`; memory does not change while it
\* runs, so coming back to an object it has loaded already is a loop
\* without end
RECURSIVE PreviousSibling(_, _, _, _, _, _)
PreviousSibling(m, base, number, object_number, seen, checks) ==
    IF number \in seen THEN [outcome |-> "hang", object |-> NoObject]
    ELSE Bind(get_object(m, base, number, checks), LAMBDA prev :
             IF prev.outcome # "ok" THEN prev
             ELSE IF prev.object.sibling = object_number THEN prev
             ELSE PreviousSibling(m, base, prev.object.sibling, object_number,
                                  seen \cup {number}, checks))

\* remove_object, the object o taken out of the chain of its parent p: the
\* parent's child link is replaced when o is the first child, the previous
\* sibling's link otherwise
Unlink(m, mark, base, o, p, checks) ==
    IF p.child = o.number
    THEN Bind(save_family(m, mark, [p EXCEPT !.child = o.sibling]), LAMBDA saved :
             [outcome |-> IF saved.ok THEN "ok" ELSE "err", mem |-> saved.mem])
    ELSE Bind(PreviousSibling(m, base, p.child, o.number, {}, checks), LAMBDA prev :
             IF prev.outcome # "ok" THEN [outcome |-> prev.outcome, mem |-> m]
             ELSE Bind(save_family(m, mark, [prev.object EXCEPT !.sibling = o.sibling]),
                       LAMBDA saved :
                           [outcome |-> IF saved.ok THEN "ok" ELSE "err",
                            mem |-> saved.mem]))

\* remove_object, once the object and its parent are loaded
RemoveFrom(m, mark, base, o, p, checks) ==
    Bind(Unlink(m, mark, base, o, p, checks), LAMBDA unlinked :
        IF unlinked.outcome # "ok"
        THEN [outcome |-> unlinked.outcome, mem |-> unlinked.mem, object |-> NoObject]
        ELSE Bind(save_family(unlinked.mem, mark, [o EXCEPT !.parent = 0, !.sibling = 0]),
                  LAMBDA saved :
                      [outcome |-> IF saved.ok THEN "ok" ELSE "err", mem |-> saved.mem,
                       object |-> IF saved.ok THEN [o EXCEPT !.parent = 0, !.sibling = 0]
                                  ELSE NoObject]))

\* ObjectTable::remove_object
remove_object(m, mark, base, object_number, checks) ==
    Bind(get_object(m, base, object_number, checks), LAMBDA o :
        IF o.outcome # "ok" THEN [outcome |-> o.outcome, mem |-> m, object |-> NoObject]
        ELSE IF o.object.parent = 0 THEN [outcome |-> "ok", mem |-> m, object |-> o.object]
        ELSE Bind(get_object(m, base, o.object.parent, checks), LAMBDA p :
                 IF p.outcome # "ok"
                 THEN [outcome |-> p.outcome, mem |-> m, object |-> NoObject]
                 ELSE RemoveFrom(m, mark, base, o.object, p.object, checks)))

\* insert_object, once the object is removed and the new parent loaded: the
\* object is saved first and the parent after it
InsertInto(m, mark, o, p) ==
    Bind(save_family(m, mark, o), LAMBDA first :
        IF ~first.ok THEN [outcome |-> "err", mem |-> first.mem, object |-> NoObject]
        ELSE Bind(save_family(first.mem, mark, p), LAMBDA second :
                 IF ~second.ok
                 THEN [outcome |-> "err", mem |-> second.mem, object |-> NoObject]
                 ELSE [outcome |-> "ok", mem |-> second.mem, object |-> o]))

\* ObjectTable::insert_object: the parent is loaded after the removal
insert_object(m, mark, base, object_number, new_parent, checks) ==
    Bind(remove_object(m, mark, base, object_number, checks), LAMBDA removed :
        IF removed.outcome # "ok" THEN removed
        ELSE Bind(get_object(removed.mem, base, new_parent, checks), LAMBDA p :
                 IF p.outcome # "ok"
                 THEN [outcome |-> p.outcome, mem |-> removed.mem, object |-> NoObject]
                 ELSE InsertInto(removed.mem, mark,
                                 [removed.object EXCEPT !.sibling = p.object.child,
                                                        !.parent = new_parent],
                                 [p.object EXCEPT !.child = object_number])))

\* set_attribute / clear_attribute, once the flags are changed
SaveChanged(m, mark, changed) ==
    IF changed.outcome # "ok"
    THEN [outcome |-> changed.outcome, mem |-> m, object |-> NoObject]
    ELSE Bind(save_attributes(m, mark, changed.object), LAMBDA saved :
             [outcome |-> IF saved.ok THEN "ok" ELSE "err", mem |-> saved.mem,
              object |-> IF saved.ok THEN changed.object ELSE NoObject])

\* ObjectTable::set_attribute
set_attribute(m, mark, base, object_number, attribute_number, checks) ==
    Bind(get_object(m, base, object_number, checks), LAMBDA o :
        IF o.outcome # "ok" THEN [outcome |-> o.outcome, mem |-> m, object |-> NoObject]
        ELSE SaveChanged(m, mark, ObjectSetAttribute(o.object, attribute_number, checks)))

\* ObjectTable::clear_attribute
clear_attribute(m, mark, base, object_number, attribute_number, checks) ==
    Bind(get_object(m, base, object_number, checks), LAMBDA o :
        IF o.outcome # "ok" THEN [outcome |-> o.outcome, mem |-> m, object |-> NoObject]
        ELSE SaveChanged(m, mark, ObjectClearAttribute(o.object, attribute_number, checks)))

\* ObjectTable::has_attribute
has_attribute(m, base, object_number, attribute_number, checks) ==
    Bind(get_object(m, base, object_number, checks), LAMBDA o :
        IF o.outcome # "ok" THEN [outcome |-> o.outcome, value |-> FALSE]
        ELSE ObjectHasAttribute(o.object.attributes, AttributeCount(m[0]),
                                attribute_number, checks))

(***************************************************************************)
(* The object table: ObjCount objects, all parentless at first, whose      *)
(* records follow the 31 property defaults and share one empty property    *)
(* table.                                                                  *)
(***************************************************************************)
ObjCount == 3

Objects == 1..ObjCount

ObjPropertyTable == 64 + 62 + 9 * ObjCount

ObjLen == ObjPropertyTable + 2

\* the static mark after the whole table, or inside the second record:
\* after the first of its two attribute words
ObjMarks == {137, ObjLen}

\* an object number whose record would lie beyond the end of the image
ObjectParents == Objects \cup {20}

AttrObjects == {2}

AttrNumbers == {1, 17, 32}

ObjImage(mark) ==
    [a \in 0..(ObjLen - 1) |->
        IF a = 0 THEN 3
        ELSE IF a = 11 THEN 64
        ELSE IF a = 14 THEN HighByte(mark)
        ELSE IF a = 15 THEN LowByte(mark)
        ELSE IF a = 124 THEN HighByte(ObjPropertyTable)
        ELSE IF a = 125 THEN LowByte(ObjPropertyTable)
        ELSE IF a >= 126 /\ a < ObjPropertyTable /\ (a - 126) % 9 = 7
        THEN HighByte(ObjPropertyTable)
        ELSE IF a >= 126 /\ a < ObjPropertyTable /\ (a - 126) % 9 = 8
        THEN LowByte(ObjPropertyTable)
        ELSE 0]

\* the family fields of object n in the image m
ParentOf(m, n) == m[ObjectTableAddress(m) + 62 + (n - 1) * 9 + 4]

SiblingOf(m, n) == m[ObjectTableAddress(m) + 62 + (n - 1) * 9 + 5]

ChildOf(m, n) == m[ObjectTableAddress(m) + 62 + (n - 1) * 9 + 6]

\* the objects met from n along the sibling links, up to the 0 that ends
\* the chain; -1 stands for a link that leads back into the chain or out
\* of the table
RECURSIVE SiblingChain(_, _, _)
SiblingChain(m, n, seen) ==
    IF n = 0 THEN <<>>
    ELSE IF n \in seen \/ n \notin Objects THEN <<-1>>
    ELSE <<n>> \o SiblingChain(m, SiblingOf(m, n), seen \cup {n})

Children(m, p) == SiblingChain(m, ChildOf(m, p), {})

Without(chain, n) == SelectSeq(chain, LAMBDA x : x # n)

InChain(chain, n) == \E i \in 1..Len(chain) : chain[i] = n

\* every child chain ends at 0 and holds exactly the objects whose parent
\* the owner of the chain is
WellFormed(m) ==
    \A p \in Objects :
        /\ ~InChain(Children(m, p), -1)
        /\ \A n \in Objects : InChain(Children(m, p), n) <=> ParentOf(m, n) = p

InitObjectsAt(marks) ==
    /\ \E mark \in marks : Load(ObjImage(mark))
    /\ current_frame = NoFrame
    /\ stack = <<>>
    /\ calls = <<>>
    /\ result = [op |-> "new", ok |-> TRUE, panic |-> FALSE]

InitObjects == InitObjectsAt(ObjMarks)

InitTree == InitObjectsAt({ObjLen})

\* an operation is applied to a well-formed tree, as a story file's is;
\* what the operations make of a malformed one is not looked into
ObjApply(r) ==
    /\ ~Panicked
    /\ WellFormed(memory_map)
    /\ memory_map' = r.mem
    /\ UNCHANGED <<static_mark, version, loaded, current_frame, stack, calls>>

InsertObject(object_number, new_parent, checks) ==
    \E r \in {insert_object(memory_map, static_mark, ObjectTableAddress(loaded),
                           object_number, new_parent, checks)} :
        /\ ObjApply(r)
        /\ result' = [op |-> "insert_object", ok |-> r.outcome = "ok",
                      panic |-> r.outcome \in {"panic", "hang"}, outcome |-> r.outcome,
                      object_number |-> object_number, new_parent |-> new_parent,
                      before |-> memory_map]

RemoveObject(object_number, checks) ==
    \E r \in {remove_object(memory_map, static_mark, ObjectTableAddress(loaded),
                           object_number, checks)} :
        /\ ObjApply(r)
        /\ result' = [op |-> "remove_object", ok |-> r.outcome = "ok",
                      panic |-> r.outcome \in {"panic", "hang"}, outcome |-> r.outcome,
                      object_number |-> object_number, before |-> memory_map]

SetAttribute(object_number, attribute_number, checks) ==
    \E r \in {set_attribute(memory_map, static_mark, ObjectTableAddress(loaded),
                           object_number, attribute_number, checks)} :
        /\ ObjApply(r)
        /\ result' = [op |-> "set_attribute", ok |-> r.outcome = "ok",
                      panic |-> r.outcome \in {"panic", "hang"}, outcome |-> r.outcome,
                      object_number |-> object_number,
                      attribute_number |-> attribute_number, before |-> memory_map]

ClearAttribute(object_number, attribute_number, checks) ==
    \E r \in {clear_attribute(memory_map, static_mark, ObjectTableAddress(loaded),
                             object_number, attribute_number, checks)} :
        /\ ObjApply(r)
        /\ result' = [op |-> "clear_attribute", ok |-> r.outcome = "ok",
                      panic |-> r.outcome \in {"panic", "hang"}, outcome |-> r.outcome,
                      object_number |-> object_number,
                      attribute_number |-> attribute_number, before |-> memory_map]

NextObjects ==
    \/ \E n \in Objects, p \in ObjectParents, checks \in BOOLEAN : InsertObject(n, p, checks)
    \/ \E n \in Objects, checks \in BOOLEAN : RemoveObject(n, checks)
    \/ \E n \in AttrObjects, a \in AttrNumbers, checks \in BOOLEAN : SetAttribute(n, a, checks)
    \/ \E n \in AttrObjects, a \in AttrNumbers, checks \in BOOLEAN :
          ClearAttribute(n, a, checks)

SpecObjects == InitObjects /\ [][NextObjects]_vars

\* the tree operations alone, on valid object numbers, the whole table
\* writable
NextTree ==
    \/ \E n \in Objects, p \in Objects, checks \in BOOLEAN : InsertObject(n, p, checks)
    \/ \E n \in Objects, checks \in BOOLEAN : RemoveObject(n, checks)

SpecTree == InitTree /\ [][NextTree]_vars

HasAttribute(object_number, attribute_number, checks) ==
    \E r \in {has_attribute(memory_map, ObjectTableAddress(loaded), object_number,
                           attribute_number, checks)} :
        /\ ObjApply([mem |-> memory_map])
        /\ result' = [op |-> "has_attribute", ok |-> r.outcome = "ok",
                      panic |-> r.outcome \in {"panic", "hang"}, outcome |-> r.outcome,
                      value |-> r.value, object_number |-> object_number,
                      attribute_number |-> attribute_number, before |-> memory_map]

\* Object::has_attribute on an object of a version 4 or later story, which
\* Object::load gave 48 flags
HasAttributeWide(attributes, attribute_number, checks) ==
    \E r \in {ObjectHasAttribute(attributes, AttributeCount(5), attribute_number,
                                checks)} :
        /\ ObjApply([mem |-> memory_map])
        /\ result' = [op |-> "has_attribute_wide", ok |-> r.outcome = "ok",
                      panic |-> r.outcome \in {"panic", "hang"}, outcome |-> r.outcome,
                      value |-> r.value, attributes |-> attributes,
                      attribute_number |-> attribute_number, before |-> memory_map]

\* the first and last attribute of either attribute word, and the count
TestedAttributes == {0, 15, 16, 31, 32}

WideAttributes == {{47}, {32}, {31, 16}, {0}}

WideNumbers == {0, 15, 16, 31, 47}

\* the attribute operations of a story whose object table is writable
NextAttributes ==
    \/ \E n \in AttrObjects, a \in TestedAttributes, checks \in BOOLEAN :
          SetAttribute(n, a, checks)
    \/ \E n \in AttrObjects, a \in TestedAttributes, checks \in BOOLEAN :
          ClearAttribute(n, a, checks)
    \/ \E n \in AttrObjects, a \in TestedAttributes, checks \in BOOLEAN :
          HasAttribute(n, a, checks)
    \/ \E attributes \in WideAttributes, a \in WideNumbers, checks \in BOOLEAN :
          HasAttributeWide(attributes, a, checks)

SpecAttributes == InitTree /\ [][NextAttributes]_vars

\* attribute a of object n as the bytes of the version 3 image m have it:
\* attribute 0 is the top bit of the first of the two attribute words
AttributeInImage(m, n, a) ==
    LET address == ObjectTableAddress(m) + 62 + (n - 1) * 9 + 2 * (a \div 16)
    IN  (MakeWord(m[address], m[address + 1]) \div (2 ^ (15 - (a % 16)))) % 2 = 1

\* C3: starting from a well-formed object tree, after any sequence of
\* insert_obj(n, p) and remove_obj(n) over valid object numbers (n = p and p
\* a descendant of n included): right after each insert_obj(n, p) the parent
\* of n is p and n is among the children of p; and for every object p,
\* child(p) followed by the sibling links visits each object whose parent is
\* p exactly once and ends at 0.
C3_TreeStaysWellFormed ==
    /\ (result.op = "insert_object" /\ result.ok) =>
          /\ ParentOf(memory_map, result.object_number) = result.new_parent
          /\ InChain(Children(memory_map, result.new_parent), result.object_number)
    /\ WellFormed(memory_map)

\* C7: insert_object(n, p) leaves parent(n) = p, sibling(n) = the child p
\* had once n was detached, child(p) = n; the chain of n's former parent no
\* longer holds n and keeps its other members in their order; when the
\* parent of n was p already, n becomes the first child of p again.
C7_InsertObjectEffect ==
    (result.op = "insert_object" /\ result.ok) =>
        LET n == result.object_number
            p == result.new_parent
            former == ParentOf(result.before, n)
            detached == Without(Children(result.before, p), n)
        IN  /\ ParentOf(memory_map, n) = p
            /\ SiblingOf(memory_map, n) = IF detached = <<>> THEN 0 ELSE detached[1]
            /\ ChildOf(memory_map, p) = n
            /\ (former # 0 /\ former # p) =>
                  Children(memory_map, former) = Without(Children(result.before, former), n)
            /\ former = p => Children(memory_map, p) = <<n>> \o detached

\* C8: if insert_object, remove_object, set_attribute or clear_attribute
\* returns an error, the bytes of the object table are what they were
\* before the call.
C8_ErrorLeavesTableUntouched ==
    (/\ result.op \in {"insert_object", "remove_object", "set_attribute", "clear_attribute"}
     /\ result.outcome = "err") =>
        \A a \in ObjectTableAddress(loaded)..(ObjPropertyTable - 1) :
            memory_map[a] = result.before[a]

\* set_attribute and then clear_attribute of the same attribute of the
\* same object, as set_attr followed by clear_attr does; the clear is not
\* reached when the set fails
SetThenClear(object_number, attribute_number, checks) ==
    \E r \in {set_attribute(memory_map, static_mark, ObjectTableAddress(loaded),
                           object_number, attribute_number, checks)} :
    \E c \in {IF r.outcome = "ok"
               THEN clear_attribute(r.mem, static_mark, ObjectTableAddress(loaded),
                                    object_number, attribute_number, checks)
               ELSE r} :
        /\ ObjApply(c)
        /\ result' = [op |-> "set_then_clear", ok |-> c.outcome = "ok",
                      panic |-> c.outcome \in {"panic", "hang"}, outcome |-> c.outcome,
                      object_number |-> object_number,
                      attribute_number |-> attribute_number,
                      before |-> memory_map, between |-> r.mem]

NextSetClear ==
    \/ \E n \in AttrObjects, a \in TestedAttributes, checks \in BOOLEAN :
          SetAttribute(n, a, checks)
    \/ \E n \in AttrObjects, a \in TestedAttributes, checks \in BOOLEAN :
          ClearAttribute(n, a, checks)
    \/ \E n \in AttrObjects, a \in TestedAttributes, checks \in BOOLEAN :
          SetThenClear(n, a, checks)

SpecSetClear == InitTree /\ [][NextSetClear]_vars

\* the attributes of object n that the version 3 image m has set
AttributesInImage(m, n) == {a \in 0..31 : AttributeInImage(m, n, a)}

\* set_attribute and then clear_attribute of a valid attribute have been
\* applied
SetClearDone == result.op = "set_then_clear" /\ result.attribute_number \in 0..31

\* the set changed no attribute but a, and neither did the clear
OnlyThatAttribute ==
    /\ AttributesInImage(result.between, result.object_number)
          = AttributesInImage(result.before, result.object_number)
              \cup {result.attribute_number}
    /\ AttributesInImage(memory_map, result.object_number)
          = AttributesInImage(result.between, result.object_number)
              \ {result.attribute_number}

\* C18 as stated: for every object n and attribute a, set_attribute(n, a)
\* followed by clear_attribute(n, a) leaves attributes(n) in memory as it
\* was before the set, and neither operation changes an attribute other
\* than a.
C18_SetClearRestores ==
    SetClearDone =>
        /\ result.ok
        /\ memory_map = result.before
        /\ OnlyThatAttribute

\* C18, amended: for every object n and attribute a, set_attribute(n, a)
\* followed by clear_attribute(n, a) changes no attribute other than a and
\* leaves a clear, so attributes(n) in memory is what it was before the set
\* exactly when a was clear then.
C18_SetClearRestoresClear ==
    SetClearDone =>
        /\ result.ok
        /\ OnlyThatAttribute
        /\ \A a \in (0..(ObjLen - 1)) \ (ObjectTableAddress(loaded)..(ObjPropertyTable - 1)) :
              memory_map[a] = result.before[a]
        /\ memory_map = result.before
              <=> ~AttributeInImage(result.before, result.object_number,
                                    result.attribute_number)

\* attribute 0 was clear and attribute 31 set before a set and clear of
\* attribute 0, and the bytes are back
C18_Witness ==
    /\ SetClearDone
    /\ result.attribute_number = 0
    /\ AttributesInImage(result.before, result.object_number) = {31}
    /\ AttributesInImage(result.between, result.object_number) = {0, 31}
    /\ memory_map = result.before

\* C17: for every attribute a below attribute_count (32 in versions 1 to 3,
\* 48 from version 4 on) has_attribute(n, a) succeeds and is true exactly
\* when bit attribute_count - 1 - a of the object's flags is set, attribute
\* 0 being the most significant bit of the first attribute word.
C17_AttributeBitOrder ==
    /\ (result.op = "has_attribute" /\ result.attribute_number \in 0..31) =>
          /\ result.ok
          /\ result.value <=> AttributeInImage(memory_map, result.object_number,
                                               result.attribute_number)
    /\ (result.op = "has_attribute_wide" /\ result.attribute_number \in 0..47) =>
          /\ result.ok
          /\ result.value <=> (47 - result.attribute_number) \in result.attributes

\* attribute 0 is found set where the top bit of the first word is set and
\* attribute 31 is not
C17_Witness ==
    /\ result.op = "has_attribute"
    /\ result.attribute_number = 0
    /\ result.value
    /\ ~AttributeInImage(memory_map, result.object_number, 31)
    /\ memory_map[ObjectTableAddress(memory_map) + 62 + (result.object_number - 1) * 9] >= 128

(***************************************************************************)
(* instruction.rs: operand resolution and the 2OP opcodes je, jl, jg,      *)
(* dec_chk, inc_chk, store and add, run by Instruction::execute.  An       *)
(* execution is the record es = [ok, panic, fs, value, store_value,        *)
(* branch_condition, log]; log lists, in the order they happen, the        *)
(* operand resolutions and the variable accesses of the opcode body.       *)
(***************************************************************************)
\* `as i16`
AsI16(w) == IF w >= 32768 THEN w - 65536 ELSE w

\* `as u16`
AsU16(i) == i % 65536

\* an access to the frame stack made for the event, r its outcome
Access(es, event, r) ==
    [es EXCEPT !.ok = r.ok, !.panic = r.panic, !.fs = r.fs,
               !.value = IF r.ok /\ "value" \in DOMAIN r THEN r.value ELSE -1,
               !.log = Append(@, event)]

\* operand_types[index] and operands[index] of an operand that is not there
MissingOperand(es) == [es EXCEPT !.ok = FALSE, !.panic = TRUE, !.value = -1]

\* Instruction::get_argument
get_argument(inst, es, index) ==
    IF index >= Len(inst.operand_types) THEN MissingOperand(es)
    ELSE LET type == inst.operand_types[index + 1]
             operand == inst.operands[index + 1]
             event == [ev |-> "operand", n |-> index]
         IN  IF type = "SmallConstant"
             THEN [es EXCEPT !.value = operand % 256, !.log = Append(@, event)]
             ELSE IF type = "LargeConstant"
             THEN [es EXCEPT !.value = operand, !.log = Append(@, event)]
             ELSE IF type = "Variable"
             THEN Bind(get_variable(es.fs, operand % 256, FALSE),
                       LAMBDA r : Access(es, event, r))
             ELSE [es EXCEPT !.ok = FALSE, !.value = -1, !.log = Append(@, event)]

\* Instruction::get_indirect_variable_reference
get_indirect_variable_reference(inst, es, index) ==
    IF index >= Len(inst.operand_types) THEN MissingOperand(es)
    ELSE LET type == inst.operand_types[index + 1]
             operand == inst.operands[index + 1]
             event == [ev |-> "operand", n |-> index]
         IN  IF type \in {"SmallConstant", "LargeConstant"}
             THEN [es EXCEPT !.value = operand % 256, !.log = Append(@, event)]
             ELSE IF type = "Variable"
             THEN Bind(get_variable(es.fs, operand % 256, TRUE),
                       LAMBDA r : [Access(es, event, r) EXCEPT
                                      !.value = IF r.ok THEN r.value % 256 ELSE -1])
             ELSE [es EXCEPT !.ok = FALSE, !.value = -1, !.log = Append(@, event)]

\* state.get_variable in an opcode body
BodyRead(es, var, indirect) ==
    Bind(get_variable(es.fs, var, indirect),
         LAMBDA r : Access(es, [ev |-> "read", n |-> var], r))

\* state.set_variable in an opcode body
BodyWrite(es, var, value, indirect) ==
    Bind(set_variable(es.fs, var, value, indirect),
         LAMBDA r : Access(es, [ev |-> "write", n |-> var], r))

\* Ok(InstructionResult { branch_condition: Some(condition), .. })
Branch(es, condition) == [es EXCEPT !.branch_condition = <<condition>>]

RECURSIVE JeFrom(_, _, _, _)
\* the loop of je over operands i.. : the first equal operand ends it
JeFrom(inst, es, a, i) ==
    IF i >= Len(inst.operands) THEN Branch(es, FALSE)
    ELSE Bind(get_argument(inst, es, i), LAMBDA b :
             IF ~b.ok THEN b
             ELSE IF a = b.value THEN Branch(b, TRUE)
             ELSE JeFrom(inst, b, a, i + 1))

\* Instruction::je
je(inst, es) ==
    Bind(get_argument(inst, es, 0), LAMBDA a :
        IF ~a.ok THEN a ELSE JeFrom(inst, a, a.value, 1))

RECURSIVE JgFrom(_, _, _, _)
\* the loop of jg: the first operand that a does not exceed ends it
JgFrom(inst, es, a, i) ==
    IF i >= Len(inst.operands) THEN Branch(es, TRUE)
    ELSE Bind(get_argument(inst, es, i), LAMBDA b :
             IF ~b.ok THEN b
             ELSE IF a <= AsI16(b.value) THEN Branch(b, FALSE)
             ELSE JgFrom(inst, b, a, i + 1))

\* Instruction::jg
jg(inst, es) ==
    Bind(get_argument(inst, es, 0), LAMBDA a :
        IF ~a.ok THEN a ELSE JgFrom(inst, a, AsI16(a.value), 1))

RECURSIVE JlFrom(_, _, _, _)
\* the loop of jl: the first operand that a is not below ends it
JlFrom(inst, es, a, i) ==
    IF i >= Len(inst.operands) THEN Branch(es, TRUE)
    ELSE Bind(get_argument(inst, es, i), LAMBDA b :
             IF ~b.ok THEN b
             ELSE IF a >= AsI16(b.value) THEN Branch(b, FALSE)
             ELSE JlFrom(inst, b, a, i + 1))

\* Instruction::jl
jl(inst, es) ==
    Bind(get_argument(inst, es, 0), LAMBDA a :
        IF ~a.ok THEN a ELSE JlFrom(inst, a, AsI16(a.value), 1))

\* i16 arithmetic: an overflow panics in a build with overflow checks and
\* wraps in one without
I16(x, checks) ==
    IF x \in -32768..32767 THEN [panic |-> FALSE, value |-> x]
    ELSE [panic |-> checks, value |-> AsI16(x % 65536)]

\* the panic of an execution
Overflowed(es) == [es EXCEPT !.ok = FALSE, !.panic = TRUE, !.value = -1]

\* dec_chk and inc_chk (step is -1 or 1): the variable is read and written
\* back, then operand 1 is resolved
StepChk(inst, es, step, checks) ==
    Bind(get_indirect_variable_reference(inst, es, 0), LAMBDA var :
        IF ~var.ok THEN var
        ELSE Bind(BodyRead(var, var.value, TRUE), LAMBDA got :
            IF ~got.ok THEN got
            ELSE Bind(I16(AsI16(got.value) + step, checks), LAMBDA var_value :
                IF var_value.panic THEN Overflowed(got)
                ELSE Bind(BodyWrite(got, var.value, AsU16(var_value.value), TRUE),
                          LAMBDA set :
                    IF ~set.ok THEN set
                    ELSE Bind(get_argument(inst, set, 1), LAMBDA value :
                        IF ~value.ok THEN value
                        ELSE Branch(value,
                                    IF step < 0
                                    THEN var_value.value < AsI16(value.value)
                                    ELSE var_value.value > AsI16(value.value)))))))

\* a dec_chk that counts up
dec_chk_up(inst, es, checks) == StepChk(inst, es, 1, checks)

\* Instruction::dec_chk
dec_chk(inst, es, checks) == StepChk(inst, es, -1, checks)

\* Instruction::inc_chk
inc_chk(inst, es, checks) == StepChk(inst, es, 1, checks)

\* Instruction::store
store(inst, es) ==
    Bind(get_indirect_variable_reference(inst, es, 0), LAMBDA var :
        IF ~var.ok THEN var
        ELSE Bind(get_argument(inst, var, 1), LAMBDA value :
            IF ~value.ok THEN value
            ELSE BodyWrite(value, var.value, value.value, FALSE)))

RECURSIVE AddFrom(_, _, _, _, _)
\* the loop of add over operands i.. , sum the i16 result so far
AddFrom(inst, es, sum, i, checks) ==
    IF i >= Len(inst.operands) THEN [es EXCEPT !.store_value = AsU16(sum)]
    ELSE Bind(get_argument(inst, es, i), LAMBDA arg :
             IF ~arg.ok THEN arg
             ELSE Bind(I16(sum + AsI16(arg.value), checks), LAMBDA next :
                      IF next.panic THEN Overflowed(arg)
                      ELSE AddFrom(inst, arg, next.value, i + 1, checks)))

\* Instruction::add
add(inst, es, checks) == AddFrom(inst, es, 0, 0, checks)

RECURSIVE SubFrom(_, _, _, _, _)
\* the loop of sub over operands i.. , difference the i16 result so far
SubFrom(inst, es, difference, i, checks) ==
    IF i >= Len(inst.operands) THEN [es EXCEPT !.store_value = AsU16(difference)]
    ELSE Bind(get_argument(inst, es, i), LAMBDA arg :
             IF ~arg.ok THEN arg
             ELSE Bind(I16(difference - AsI16(arg.value), checks), LAMBDA next :
                      IF next.panic THEN Overflowed(arg)
                      ELSE SubFrom(inst, arg, next.value, i + 1, checks)))

\* Instruction::sub
sub(inst, es, checks) ==
    Bind(get_argument(inst, es, 0), LAMBDA a :
        IF ~a.ok THEN a ELSE SubFrom(inst, a, AsI16(a.value), 1, checks))

RECURSIVE MulFrom(_, _, _, _, _)
\* the loop of mul over operands i.. , product the i16 result so far
MulFrom(inst, es, product, i, checks) ==
    IF i >= Len(inst.operands) THEN [es EXCEPT !.store_value = AsU16(product)]
    ELSE Bind(get_argument(inst, es, i), LAMBDA arg :
             IF ~arg.ok THEN arg
             ELSE Bind(I16(product * AsI16(arg.value), checks), LAMBDA next :
                      IF next.panic THEN Overflowed(arg)
                      ELSE MulFrom(inst, arg, next.value, i + 1, checks)))

\* Instruction::mul
mul(inst, es, checks) ==
    Bind(get_argument(inst, es, 0), LAMBDA a :
        IF ~a.ok THEN a ELSE MulFrom(inst, a, AsI16(a.value), 1, checks))

\* i16 `/`: the division truncates toward zero; i16::MIN / -1 overflows,
\* which is a panic in every build
TruncatedDiv(x, y) ==
    IF x = -32768 /\ y = -1 THEN [panic |-> TRUE, value |-> 0]
    ELSE LET magnitude == (IF x < 0 THEN -x ELSE x) \div (IF y < 0 THEN -y ELSE y)
         IN  [panic |-> FALSE,
              value |-> IF (x < 0) = (y < 0) THEN magnitude ELSE -magnitude]

RECURSIVE DivFrom(_, _, _, _)
\* the loop of div over operands i.. , quotient the i16 result so far
DivFrom(inst, es, quotient, i) ==
    IF i >= Len(inst.operands) THEN [es EXCEPT !.store_value = AsU16(quotient)]
    ELSE Bind(get_argument(inst, es, i), LAMBDA arg :
             IF ~arg.ok THEN arg
             ELSE IF arg.value = 0 THEN [arg EXCEPT !.ok = FALSE]
             ELSE Bind(TruncatedDiv(quotient, AsI16(arg.value)), LAMBDA next :
                      IF next.panic THEN Overflowed(arg)
                      ELSE DivFrom(inst, arg, next.value, i + 1)))

\* a div that leaves its first operand undivided
div_undivided(inst, es) ==
    Bind(get_argument(inst, es, 0), LAMBDA a :
        IF ~a.ok THEN a ELSE [a EXCEPT !.store_value = a.value])

\* Instruction::div
div(inst, es) ==
    Bind(get_argument(inst, es, 0), LAMBDA a :
        IF ~a.ok THEN a ELSE DivFrom(inst, a, AsI16(a.value), 1))

\* i16 `%`: the remainder of the division that truncates toward zero
TruncatedRem(x, y) ==
    LET magnitude == (IF x < 0 THEN -x ELSE x) % (IF y < 0 THEN -y ELSE y)
    IN  IF x < 0 THEN -magnitude ELSE magnitude

\* i16::rem_euclid for y # 0: `%`, then made non-negative; i16::MIN % -1
\* overflows, which is a panic in every build
rem_euclid(x, y) ==
    IF x = -32768 /\ y = -1 THEN [panic |-> TRUE, value |-> 0]
    ELSE LET r == TruncatedRem(x, y)
         IN  [panic |-> FALSE,
              value |-> IF r >= 0 THEN r ELSE IF y < 0 THEN r - y ELSE r + y]

RECURSIVE ModuloFrom(_, _, _, _)
\* the loop of modulo over operands i.. , remainder the i16 result so far
ModuloFrom(inst, es, remainder, i) ==
    IF i >= Len(inst.operands) THEN [es EXCEPT !.store_value = AsU16(remainder)]
    ELSE Bind(get_argument(inst, es, i), LAMBDA arg :
             IF ~arg.ok THEN arg
             ELSE IF arg.value = 0 THEN [arg EXCEPT !.ok = FALSE]
             ELSE Bind(rem_euclid(remainder, AsI16(arg.value)), LAMBDA next :
                      IF next.panic THEN Overflowed(arg)
                      ELSE ModuloFrom(inst, arg, next.value, i + 1)))

\* Instruction::modulo
modulo(inst, es) ==
    Bind(get_argument(inst, es, 0), LAMBDA a :
        IF ~a.ok THEN a ELSE ModuloFrom(inst, a, AsI16(a.value), 1))

\* InstructionResult::default() over the frame stack fs
Started(fs) ==
    [ok |-> TRUE, panic |-> FALSE, fs |-> fs, value |-> -1, store_value |-> None,
     branch_condition |-> <<>>, next_pc |-> None, log |-> <<>>]

\* Instruction::rtrue
rtrue(es) ==
    Bind(return_from(es.fs, 1), LAMBDA r :
        [es EXCEPT !.ok = r.ok, !.panic = r.panic, !.fs = r.fs,
                   !.next_pc = IF r.ok THEN r.value ELSE None])

\* Instruction::nop
nop(es) == es

\* Instruction::quit
quit(es) == [es EXCEPT !.ok = FALSE]

\* inc and dec (step is 1 or -1): the variable is read and written back in
\* place
Step(inst, es, step, checks) ==
    Bind(get_indirect_variable_reference(inst, es, 0), LAMBDA var :
        IF ~var.ok THEN var
        ELSE Bind(BodyRead(var, var.value, TRUE), LAMBDA got :
            IF ~got.ok THEN got
            ELSE Bind(I16(AsI16(got.value) + step, checks), LAMBDA var_value :
                IF var_value.panic THEN Overflowed(got)
                ELSE BodyWrite(got, var.value, AsU16(var_value.value), TRUE))))

\* Instruction::inc
inc(inst, es, checks) == Step(inst, es, 1, checks)

\* Instruction::dec
dec(inst, es, checks) == Step(inst, es, -1, checks)

\* Instruction::load
load(inst, es) ==
    Bind(get_indirect_variable_reference(inst, es, 0), LAMBDA var :
        IF ~var.ok THEN var
        ELSE Bind(BodyRead(var, var.value, TRUE), LAMBDA got :
            IF ~got.ok THEN got ELSE [got EXCEPT !.store_value = got.value]))

\* the end of a body that leaves the frame: return_from's address is the
\* next pc
Returned(es, return_value) ==
    Bind(return_from(es.fs, return_value), LAMBDA r :
        [es EXCEPT !.ok = r.ok, !.panic = r.panic, !.fs = r.fs,
                   !.next_pc = IF r.ok THEN r.value ELSE None])

\* Instruction::ret
ret(inst, es) ==
    Bind(get_argument(inst, es, 0), LAMBDA value :
        IF ~value.ok THEN value ELSE Returned(value, value.value))

\* Instruction::rfalse
rfalse(es) == Returned(es, 0)

RECURSIVE CallFrom(_, _, _, _, _, _)
\* the loop of call over operands i.. , args the arguments so far; then
\* state.call with the instruction's store variable and next pc
CallFrom(inst, es, ver, packed_address, args, i) ==
    IF i >= Len(inst.operands)
    THEN Bind(call(es.fs, ver, packed_address, args, inst.store_variable, inst.next_pc),
              LAMBDA r : [es EXCEPT !.ok = r.ok, !.panic = r.panic, !.fs = r.fs,
                                    !.next_pc = IF r.ok THEN r.value ELSE None])
    ELSE Bind(get_argument(inst, es, i), LAMBDA arg :
             IF ~arg.ok THEN arg
             ELSE CallFrom(inst, arg, ver, packed_address, Append(args, arg.value), i + 1))

\* Instruction::call
InstructionCall(inst, es, ver) ==
    Bind(get_argument(inst, es, 0), LAMBDA packed_address :
        IF ~packed_address.ok THEN packed_address
        ELSE CallFrom(inst, packed_address, ver, packed_address.value, <<>>, 1))

\* Instruction::jz
jz(inst, es) ==
    Bind(get_argument(inst, es, 0), LAMBDA a :
        IF ~a.ok THEN a ELSE Branch(a, a.value = 0))

\* Instruction::get_child
get_child(inst, es, checks) ==
    Bind(get_argument(inst, es, 0), LAMBDA object :
        IF ~object.ok THEN object
        ELSE Bind(get_object(object.fs.mem, ObjectTableAddress(object.fs.mem),
                             object.value, checks), LAMBDA o :
            IF o.outcome # "ok"
            THEN [object EXCEPT !.ok = FALSE, !.panic = o.outcome = "panic"]
            ELSE Branch([object EXCEPT !.store_value = o.object.child],
                        o.object.child # 0)))

\* Instruction::push
push(inst, es) ==
    Bind(get_argument(inst, es, 0), LAMBDA value :
        IF ~value.ok THEN value
        ELSE [value EXCEPT !.fs.cur = FramePush(value.fs.cur, value.value)])

\* an Err that only reports: nothing is resolved, read or written for it
Unimplemented_unreported(es, message) == es @@ [error |-> message]

\* Err(InfocomError::Memory(message)) of an opcode that is not implemented
Unimplemented(es, message) == [es EXCEPT !.ok = FALSE] @@ [error |-> message]

\* execute, the match on the opcode: the long and variable forms of V3's
\* 2OP opcodes 1-5, 13 and 20-24 and the numbers no 2OP opcode has; the 1OP
\* opcodes jz, get_child, inc, dec, ret and load; the 0OP opcodes rtrue, rfalse, nop and
\* quit; the VAR opcodes call and push; the opcodes whose functions only
\* return an error; the numbers no opcode of a kind has
MatchOpcode(inst, fs, ver, checks) ==
    LET es == Started(fs)
        number == inst.opcode % 32
        two_op == inst.opcode < 128 \/ (inst.opcode > 191 /\ inst.opcode < 224)
        one_op == inst.opcode > 127 /\ inst.opcode < 176
        zero_op == inst.opcode > 175 /\ inst.opcode < 192
        var_op == inst.opcode > 223
    IN  CASE ver = 3 /\ two_op /\ number = 1 -> je(inst, es)
          [] ver = 3 /\ two_op /\ number = 2 -> jl(inst, es)
          [] ver = 3 /\ two_op /\ number = 3 -> jg(inst, es)
          [] ver = 3 /\ two_op /\ number = 4 -> dec_chk(inst, es, checks)
          [] ver = 3 /\ two_op /\ number = 5 -> inc_chk(inst, es, checks)
          [] ver = 3 /\ two_op /\ number = 13 -> store(inst, es)
          [] ver = 3 /\ two_op /\ number = 20 -> add(inst, es, checks)
          [] ver = 3 /\ two_op /\ number = 21 -> sub(inst, es, checks)
          [] ver = 3 /\ two_op /\ number = 22 -> mul(inst, es, checks)
          [] ver = 3 /\ two_op /\ number = 23 -> div(inst, es)
          [] ver = 3 /\ two_op /\ number = 24 -> modulo(inst, es)
          [] ver = 3 /\ two_op /\ number \in {0} \cup 25..31 ->
                Unimplemented(es, <<"Unimplemented opcode", inst.opcode>>)
          [] ver = 3 /\ one_op /\ inst.opcode % 16 = 0 -> jz(inst, es)
          [] ver = 3 /\ one_op /\ inst.opcode % 16 = 2 -> get_child(inst, es, checks)
          [] ver = 3 /\ one_op /\ inst.opcode % 16 = 5 -> inc(inst, es, checks)
          [] ver = 3 /\ one_op /\ inst.opcode % 16 = 6 -> dec(inst, es, checks)
          [] ver = 3 /\ one_op /\ inst.opcode % 16 = 11 -> ret(inst, es)
          [] ver = 3 /\ one_op /\ inst.opcode % 16 = 14 -> load(inst, es)
          [] ver = 3 /\ one_op /\ inst.opcode % 16 = 8 ->
                Unimplemented(es, <<"Unimplemented opcode", inst.opcode>>)
          [] ver = 3 /\ zero_op /\ inst.opcode % 16 = 0 -> rtrue(es)
          [] ver = 3 /\ zero_op /\ inst.opcode % 16 = 1 -> rfalse(es)
          [] ver = 3 /\ zero_op /\ inst.opcode % 16 = 4 -> nop(es)
          [] ver = 3 /\ zero_op /\ inst.opcode % 16 = 10 -> quit(es)
          [] ver = 3 /\ zero_op /\ inst.opcode % 16 = 5 ->
                Unimplemented(es, <<"save_v1 not implemented yet">>)
          [] ver = 3 /\ zero_op /\ inst.opcode % 16 = 6 ->
                Unimplemented(es, <<"restore_v1 not implemented yet">>)
          [] ver = 3 /\ zero_op /\ inst.opcode % 16 = 7 ->
                Unimplemented(es, <<"restart not implemented yet">>)
          [] ver = 3 /\ zero_op /\ inst.opcode % 16 = 13 ->
                Unimplemented(es, <<"verify not implemented yet">>)
          [] ver = 3 /\ zero_op /\ inst.opcode % 16 \in {14, 15} ->
                Unimplemented(es, <<"Unimplemented opcode", inst.opcode>>)
          [] ver = 3 /\ var_op /\ number = 0 -> InstructionCall(inst, es, ver)
          [] ver = 3 /\ var_op /\ number = 8 -> push(inst, es)
          [] ver = 3 /\ var_op /\ number = 10 ->
                Unimplemented(es, <<"split_window not implemented yet">>)
          [] ver = 3 /\ var_op /\ number = 11 ->
                Unimplemented(es, <<"set_window not implemented yet">>)
          [] ver = 3 /\ var_op /\ number = 19 ->
                Unimplemented(es, <<"output_stream not implemented yet">>)
          [] ver = 3 /\ var_op /\ number = 20 ->
                Unimplemented(es, <<"input_stream not implemented yet">>)
          [] ver = 3 /\ var_op /\ number = 21 ->
                Unimplemented(es, <<"sound_effect not implemented yet">>)
          [] ver = 3 /\ var_op /\ number \in 12..18 \cup 22..31 ->
                Unimplemented(es, <<"Unimplemented opcode", inst.opcode>>)

\* an execute that takes every story for a version 3 story
Dispatch_any_version(inst, fs, ver, checks) == MatchOpcode(inst, fs, 3, checks)

\* execute, the match on the version: `Version::V(3) => ..` and `_ => Err(..)`
Dispatch(inst, fs, ver, checks) ==
    IF ver # 3 THEN Unimplemented(Started(fs), <<"Unimplemented verison", ver>>)
    ELSE MatchOpcode(inst, fs, ver, checks)

\* execute, the store of the result
Stored(inst, es) ==
    IF inst.store_variable # None /\ es.store_value # None
    THEN Bind(set_variable(es.fs, inst.store_variable, es.store_value, FALSE),
              LAMBDA r : Access(es, [ev |-> "store", n |-> inst.store_variable], r))
    ELSE es

\* execute, the branch and the next pc
Branched(inst, es) ==
    LET next_pc == IF es.next_pc # None THEN es.next_pc ELSE inst.next_pc
    IN  IF inst.branch_offset = <<>> THEN [es EXCEPT !.value = next_pc]
        ELSE IF es.branch_condition = <<>>
        THEN [es EXCEPT !.ok = FALSE, !.panic = TRUE, !.value = -1]
        ELSE IF es.branch_condition[1] # inst.branch_offset[1].condition
        THEN [es EXCEPT !.value = next_pc]
        ELSE IF inst.branch_offset[1].return_value # None
        THEN Bind(return_from(es.fs, inst.branch_offset[1].return_value),
                  LAMBDA r : [es EXCEPT !.ok = r.ok, !.panic = r.panic, !.fs = r.fs,
                                        !.value = r.value])
        ELSE [es EXCEPT !.value = inst.branch_offset[1].address]

\* an execute that branches before it stores
execute_branch_first(inst, fs, ver, checks) ==
    Bind(Dispatch(inst, fs, ver, checks), LAMBDA done :
        IF ~done.ok THEN done
        ELSE Bind(Branched(inst, done), LAMBDA branched :
                 IF ~branched.ok THEN branched
                 ELSE [Stored(inst, branched) EXCEPT !.value = branched.value]))

\* Instruction::execute
execute(inst, fs, ver, checks) ==
    Bind(Dispatch(inst, fs, ver, checks), LAMBDA done :
        IF ~done.ok THEN done
        ELSE Bind(Stored(inst, done), LAMBDA stored :
                 IF ~stored.ok THEN stored ELSE Branched(inst, stored)))

(***************************************************************************)
(* Executing decoded instructions on the first frame of a story file       *)
(* whose global 16 is 3: the operands are constants, the stack and the     *)
(* global.                                                                 *)
(***************************************************************************)
ExecMaxStack == 2

ExecMaxValue == 5

ExecVersions == {3, 5}

\* header, globals at 64 (global 16 is 3), the static mark at 68
ExecImage(ver) ==
    [a \in 0..71 |->
        IF a = 0 THEN ver
        ELSE IF a = 7 THEN 70
        ELSE IF a = 13 THEN 64
        ELSE IF a = 15 THEN 68
        ELSE IF a = 65 THEN 3
        ELSE 0]

\* a decoded branch to an address, and one that returns 1
BranchTo == <<[condition |-> TRUE, return_value |-> None, address |-> 120]>>

BranchReturn == <<[condition |-> TRUE, return_value |-> 1, address |-> None]>>

\* decode_instruction's Instruction, the fields execute reads
Decoded(opcode, operand_types, operands, store_variable, branch_offset) ==
    [opcode |-> opcode, operand_types |-> operand_types, operands |-> operands,
     store_variable |-> store_variable, branch_offset |-> branch_offset,
     next_pc |-> 100]

\* what decode_instruction makes of the instructions named on the right
ExecInstructions ==
    { Decoded(193, <<"SmallConstant", "SmallConstant", "Variable">>, <<3, 3, 0>>,
              None, BranchTo),                      \* je #3,#3,(SP)
      Decoded(193, <<"Variable", "SmallConstant", "SmallConstant", "Variable">>,
              <<16, 1, 3, 0>>, None, BranchTo),     \* je G00,#1,#3,(SP)
      Decoded(65, <<"Variable", "SmallConstant">>, <<0, 3>>,
              None, BranchTo),                      \* je (SP),#3
      Decoded(193, <<"LargeConstant", "Variable">>, <<5, 0>>,
              None, BranchTo),                      \* je #0005,(SP)
      Decoded(194, <<"SmallConstant", "SmallConstant", "Variable">>, <<5, 3, 0>>,
              None, BranchTo),                      \* jl #5,#3,(SP)
      Decoded(194, <<"SmallConstant", "SmallConstant", "Variable">>, <<3, 5, 0>>,
              None, BranchTo),                      \* jl #3,#5,(SP)
      Decoded(2, <<"SmallConstant", "SmallConstant">>, <<3, 5>>,
              None, BranchReturn),                  \* jl #3,#5 ?rtrue
      Decoded(195, <<"SmallConstant", "SmallConstant", "Variable">>, <<3, 5, 0>>,
              None, BranchTo),                      \* jg #3,#5,(SP)
      Decoded(195, <<"SmallConstant", "SmallConstant", "Variable">>, <<5, 3, 0>>,
              None, BranchTo),                      \* jg #5,#3,(SP)
      Decoded(4, <<"SmallConstant", "SmallConstant">>, <<16, 2>>,
              None, BranchTo),                      \* dec_chk G00,#2
      Decoded(36, <<"SmallConstant", "Variable">>, <<16, 16>>,
              None, BranchTo),                      \* dec_chk G00,G00
      Decoded(5, <<"SmallConstant", "SmallConstant">>, <<16, 4>>,
              None, BranchTo),                      \* inc_chk G00,#4
      Decoded(37, <<"SmallConstant", "Variable">>, <<16, 0>>,
              None, BranchTo),                      \* inc_chk G00,(SP)
      Decoded(197, <<"SmallConstant">>, <<16>>,
              None, BranchTo),                      \* inc_chk G00
      Decoded(13, <<"SmallConstant", "SmallConstant">>, <<0, 5>>,
              None, <<>>),                          \* store (SP),#5
      Decoded(13, <<"SmallConstant", "SmallConstant">>, <<16, 3>>,
              None, <<>>),                          \* store G00,#3
      Decoded(45, <<"SmallConstant", "Variable">>, <<16, 0>>,
              None, <<>>),                          \* store G00,(SP)
      Decoded(52, <<"SmallConstant", "Variable">>, <<1, 0>>,
              16, <<>>),                            \* add #1,(SP) -> G00
      Decoded(84, <<"Variable", "SmallConstant">>, <<16, 1>>,
              0, <<>>),                             \* add G00,#1 -> (SP)
      Decoded(25, <<"SmallConstant", "SmallConstant">>, <<1, 1>>,
              0, <<>>) }                            \* 2OP:25, not in V3

\* the values kept small: the stack and global 16
ExecBounded(fs) ==
    /\ Len(fs.cur.stack) <= ExecMaxStack
    /\ \A i \in 1..Len(fs.cur.stack) : fs.cur.stack[i] <= ExecMaxValue
    /\ get_word(fs.mem, fs.gvt).value <= ExecMaxValue

InitExec ==
    /\ \E ver \in ExecVersions :
          /\ Load(ExecImage(ver))
          /\ current_frame = FirstFrame(ExecImage(ver))
    /\ stack = <<>>
    /\ calls = <<>>
    /\ result = [op |-> "new", ok |-> TRUE, panic |-> FALSE]

Execute(inst, checks) ==
    /\ ~Panicked
    /\ \E es \in {execute(inst, FsState, version, checks)} :
          /\ ExecBounded(es.fs)
          /\ memory_map' = es.fs.mem
          /\ current_frame' = es.fs.cur
          /\ stack' = es.fs.stk
          /\ UNCHANGED <<static_mark, version, loaded, calls>>
          /\ result' = [op |-> "execute", ok |-> es.ok, panic |-> es.panic,
                        value |-> es.value, instruction |-> inst, log |-> es.log,
                        before |-> current_frame.stack,
                        error |-> IF "error" \in DOMAIN es THEN es.error ELSE <<>>]

NextExec == \E inst \in ExecInstructions, checks \in BOOLEAN : Execute(inst, checks)

SpecExec == InitExec /\ [][NextExec]_vars

\* the operand resolutions of the log, in the order they were made
Resolved(log) == SelectSeq(log, LAMBDA e : e.ev = "operand")

\* C4: an instruction that completes has resolved each of its decoded
\* operands exactly once, from left to right, and all of them before its
\* body read or wrote a variable.
C4_OperandsResolvedFirst ==
    (result.op = "execute" /\ result.ok) =>
        LET n == Len(result.instruction.operands)
        IN  /\ Len(result.log) >= n
            /\ \A i \in 1..n : result.log[i] = [ev |-> "operand", n |-> i - 1]
            /\ Len(Resolved(result.log)) = n

(***************************************************************************)
(* The arithmetic opcodes on two large constants, the result stored in     *)
(* global 16.                                                              *)
(***************************************************************************)
\* 0, small values, -7 and the ends of the i16 range
ArithValues == {0, 1, 3, 7, 32767, 32768, 65529, 65535}

\* the variable forms of add, sub, mul and mod
ArithOpcodes == {212, 213, 214, 216}

ArithInstructions ==
    { Decoded(opcode, <<"LargeConstant", "LargeConstant">>, <<a, b>>, 16, <<>>) :
        opcode \in ArithOpcodes, a \in ArithValues, b \in ArithValues }

InitArith ==
    /\ Load(ExecImage(3))
    /\ current_frame = FirstFrame(ExecImage(3))
    /\ stack = <<>>
    /\ calls = <<>>
    /\ result = [op |-> "new", ok |-> TRUE, panic |-> FALSE]

\* Instruction::execute of an arithmetic instruction
ExecuteArithmetic(inst, checks) ==
    /\ ~Panicked
    /\ \E es \in {execute(inst, FsState, version, checks)} :
          /\ memory_map' = es.fs.mem
          /\ current_frame' = es.fs.cur
          /\ stack' = es.fs.stk
          /\ UNCHANGED <<static_mark, version, loaded, calls>>
          /\ result' = [op |-> "arithmetic", ok |-> es.ok, panic |-> es.panic,
                        value |-> es.value, instruction |-> inst,
                        stored |-> get_word(es.fs.mem, es.fs.gvt).value]

NextArith ==
    \E inst \in ArithInstructions, checks \in BOOLEAN : ExecuteArithmetic(inst, checks)

SpecArith == InitArith /\ [][NextArith]_vars

\* C19: add, sub and mul of any two 16-bit operands complete, without an
\* error or an abort, and store the sum, difference or product of the
\* operands' bit patterns modulo 2^16.
C19_ArithmeticWraps ==
    (result.op = "arithmetic" /\ result.instruction.opcode \in {212, 213, 214}) =>
        LET a == result.instruction.operands[1]
            b == result.instruction.operands[2]
        IN  /\ result.ok
            /\ ~result.panic
            /\ result.stored = CASE result.instruction.opcode = 212 -> (a + b) % 65536
                                 [] result.instruction.opcode = 213 -> (a - b) % 65536
                                 [] result.instruction.opcode = 214 ->
                                      (AsI16(a) * AsI16(b)) % 65536

\* C20: mod of a signed 16-bit dividend by a nonzero divisor completes and
\* stores a remainder that is zero or has the sign of the dividend (-7 mod 3
\* is -1).
C20_ModSignOfDividend ==
    (/\ result.op = "arithmetic"
     /\ result.instruction.opcode = 216
     /\ result.instruction.operands[2] # 0) =>
        LET dividend == AsI16(result.instruction.operands[1])
            remainder == AsI16(result.stored)
        IN  /\ result.ok
            /\ remainder = 0 \/ (remainder < 0 <=> dividend < 0)

(***************************************************************************)
(* text.rs: the alphabet and the Encoder; dictionary.rs: Dictionary.  A    *)
(* string is the sequence of its characters' code points; Rust indexes it  *)
(* by the bytes of its UTF-8 form.                                         *)
(***************************************************************************)
\* Alphabet::new: zscii_table
zscii_table ==
    <<228, 246, 252, 196, 214, 220, 223, 187, 171, 235, 239, 255, 203, 207, 225, 233,
      237, 243, 250, 253, 193, 201, 205, 211, 218, 221, 224, 232, 236, 242, 249, 192,
      200, 204, 210, 217, 226, 234, 238, 244, 251, 194, 202, 212, 219, 229, 197, 248,
      216, 227, 241, 245, 195, 209, 213, 230, 198, 231, 199, 254, 240, 222, 208, 163,
      339, 338, 161, 191>>

\* Alphabet::new: the three rows of versions 2 to 4
alphabet ==
    <<[j \in 1..26 |-> 96 + j],
      [j \in 1..26 |-> 64 + j],
      <<32, 10, 48, 49, 50, 51, 52, 53, 54, 55, 56, 57, 46,
        44, 33, 63, 95, 35, 39, 34, 47, 92, 45, 58, 40, 41>>>>

\* the first place of c in row, 0 when it has none
IndexOf(row, c) ==
    IF \E j \in 1..Len(row) : row[j] = c
    THEN CHOOSE j \in 1..Len(row) : row[j] = c /\ \A k \in 1..(j - 1) : row[k] # c
    ELSE 0

\* Decoder::zscii_to_char, of a code that is at most 1023
zscii_to_char(z) ==
    IF z = 0 THEN 0
    ELSE IF z = 13 THEN 10
    ELSE IF z \in 32..126 THEN z
    ELSE IF z >= 155 /\ z < 155 + Len(zscii_table) THEN zscii_table[z - 155 + 1]
    ELSE 64

\* the bytes a character takes in a String
Utf8Len(c) == IF c < 128 THEN 1 ELSE IF c < 2048 THEN 2 ELSE IF c < 65536 THEN 3 ELSE 4

RECURSIVE ByteLen(_)
\* str::len
ByteLen(chars) ==
    IF chars = <<>> THEN 0 ELSE Utf8Len(Head(chars)) + ByteLen(Tail(chars))

\* char::to_lowercase, of ASCII and of the characters of zscii_table
LowerChar(c) ==
    IF c \in 65..90 \/ (c \in 192..222 /\ c # 215) THEN c + 32
    ELSE IF c = 338 THEN 339
    ELSE c

\* String::to_lowercase
to_lowercase(chars) == [j \in 1..Len(chars) |-> LowerChar(chars[j])]

\* Encoder::map_char: <<alphabet, z-character>>, <<>> for None
map_char(c) ==
    IF IndexOf(alphabet[1], c) # 0 THEN <<0, IndexOf(alphabet[1], c) + 5>>
    ELSE IF IndexOf(alphabet[2], c) # 0 THEN <<1, IndexOf(alphabet[2], c) + 5>>
    ELSE IF IndexOf(alphabet[3], c) # 0 THEN <<2, IndexOf(alphabet[3], c) + 5>>
    ELSE IF IndexOf(zscii_table, c) # 0
    THEN LET code == 155 + IndexOf(zscii_table, c) - 1
         IN  <<128 + ((code \div 32) % 32), code % 32>>
    ELSE <<>>

RECURSIVE ZcharsFrom(_, _, _, _)
\* the loop of to_zchars without shift lock, as encode asks from version 3
ZcharsFrom(text, k, zchars, length) ==
    IF Len(zchars) >= length \/ k > Len(text) THEN zchars
    ELSE LET m == map_char(text[k])
         IN  ZcharsFrom(text, k + 1,
                        IF m = <<>> THEN zchars
                        ELSE IF m[1] >= 128 THEN zchars \o <<5, 6, m[1] % 32, m[2]>>
                        ELSE IF m[1] = 2 THEN zchars \o <<5, m[2]>>
                        ELSE Append(zchars, m[2]),
                        length)

\* Encoder::to_zchars: padded with 5 and cut to length
to_zchars(text, length) ==
    SubSeq(ZcharsFrom(text, 1, <<>>, length) \o [j \in 1..length |-> 5], 1, length)

\* Encoder::encode_text: three z-characters (each below 32) a word, the
\* last word marked
encode_text(text, length) ==
    LET zchars == to_zchars(text, length)
        count == length \div 3
        packed(w) ==
            LET zc1 == zchars[3 * w - 2]
                zc2 == zchars[3 * w - 1]
                zc3 == zchars[3 * w]
                zb1 == ((zc1 * 4) % 128) + ((zc2 \div 8) % 4)
                zb2 == ((zc2 * 32) % 256) + zc3
            IN  MakeWord(zb1, zb2)
    IN  [w \in 1..count |-> IF w = count THEN packed(w) + 32768 ELSE packed(w)]

\* Encoder::encode, versions 3 and later
encode(ver, text) == encode_text(to_lowercase(text), IF ver = 3 THEN 6 ELSE 9)

\* Dictionary::new: the header of the dictionary at the word at 0x08; in
\* versions 1 to 4 Decoder::new and Encoder::new read nothing and succeed
DictionaryNew(m) ==
    LET address == get_word(m, 8)
    IN  IF ~address.ok THEN [ok |-> FALSE]
        ELSE
        LET separator_count == get_byte(m, address.value)
        IN  IF ~separator_count.ok THEN [ok |-> FALSE]
            ELSE
            LET n == separator_count.value
                entry_length == get_byte(m, address.value + 1 + n)
                entry_count == get_word(m, address.value + 2 + n)
            IN  IF \/ \E i \in 1..n : ~get_byte(m, address.value + i).ok
                   \/ ~entry_length.ok
                   \/ ~entry_count.ok
                THEN [ok |-> FALSE]
                ELSE [ok |-> TRUE, address |-> address.value,
                      separators |-> {zscii_to_char(m[address.value + i]) : i \in 1..n},
                      entry_length |-> entry_length.value,
                      entry_count |-> entry_count.value,
                      entries_address |-> address.value + 4 + n]

RECURSIVE LookupFrom(_, _, _, _)
\* the loop of lookup_word over entries i.. : value is None or the address
LookupFrom(d, m, entry, i) ==
    IF i >= d.entry_count THEN [ok |-> TRUE, value |-> None]
    ELSE LET entry_address == d.entries_address + i * d.entry_length
             high == get_word(m, entry_address)
             low == get_word(m, entry_address + 2)
         IN  IF ~high.ok \/ ~low.ok THEN [ok |-> FALSE, value |-> None]
             ELSE IF entry = <<high.value, low.value>>
             THEN [ok |-> TRUE, value |-> entry_address % 65536]
             ELSE LookupFrom(d, m, entry, i + 1)

\* Dictionary::lookup_word
lookup_word(d, m, ver, word) ==
    LET encoded_text == encode(ver, word)
    IN  LookupFrom(d, m, <<encoded_text[1], encoded_text[2]>>, 0)

\* slice.find(|c| c == ' ' || separators.contains(&c)): the place of the
\* first such character in slice, 0 for None
FindBreak(slice, separators) ==
    LET breaks == {k \in 1..Len(slice) : slice[k] = 32 \/ slice[k] \in separators}
    IN  IF breaks = {} THEN 0 ELSE CHOOSE k \in breaks : \A j \in breaks : k <= j

RECURSIVE WordsFrom(_, _, _, _)
\* the loop of analyze_text.  i is the byte index find returns, the break
\* itself is slice[k]; chars().collect()[i] is the character at index i;
\* slicing at i + 1 panics unless the break is one byte long.
WordsFrom(separators, slice, offset, words) ==
    LET k == FindBreak(slice, separators)
        i == ByteLen(SubSeq(slice, 1, k - 1))
        word == [text |-> SubSeq(slice, 1, k - 1), position |-> offset]
        separator == [text |-> <<slice[k]>>, position |-> offset + i]
    IN  IF k = 0
        THEN [panic |-> FALSE,
              words |-> IF Len(slice) > 0
                        THEN Append(words, [text |-> slice, position |-> offset])
                        ELSE words]
        ELSE IF i > 0 /\ i >= Len(slice)
        THEN [panic |-> TRUE, words |-> Append(words, word)]
        ELSE IF Utf8Len(slice[k]) # 1
        THEN [panic |-> TRUE, words |-> IF i > 0 THEN Append(words, word) ELSE words]
        ELSE WordsFrom(separators, SubSeq(slice, k + 1, Len(slice)), offset + i + 1,
                       IF i = 0 THEN words
                       ELSE IF slice[i + 1] \in separators
                       THEN words \o <<word, separator>>
                       ELSE Append(words, word))

\* u8 addition: an overflow panics in a build with overflow checks and
\* wraps in one without
U8Add(a, b, checks) ==
    IF a + b <= 255 THEN [panic |-> FALSE, value |-> a + b]
    ELSE [panic |-> checks, value |-> (a + b) % 256]

\* analyze_text, the four bytes of word i (from 0) of the parse table
WriteWord(d, m, mark, ver, w, addr, checks) ==
    LET found == lookup_word(d, m, ver, w.text)
        position == U8Add(w.position % 256, 2, checks)
    IN  IF ~found.ok THEN [ok |-> FALSE, panic |-> FALSE, mem |-> m]
        ELSE Bind(set_word(m, mark, addr, IF found.value # None THEN found.value ELSE 0),
                  LAMBDA entry :
             IF ~entry.ok THEN [ok |-> FALSE, panic |-> FALSE, mem |-> entry.mem]
             ELSE Bind(set_byte(entry.mem, mark, addr + 2, ByteLen(w.text) % 256),
                       LAMBDA length :
                  IF ~length.ok THEN [ok |-> FALSE, panic |-> FALSE, mem |-> length.mem]
                  ELSE IF position.panic
                  THEN [ok |-> FALSE, panic |-> TRUE, mem |-> length.mem]
                  ELSE Bind(set_byte(length.mem, mark, addr + 3, position.value),
                            LAMBDA at : [ok |-> at.ok, panic |-> FALSE, mem |-> at.mem])))

RECURSIVE WriteWords(_, _, _, _, _, _, _, _)
\* analyze_text, the loop over words i..
WriteWords(d, m, mark, ver, words, i, parse_table_address, checks) ==
    IF i >= Len(words) THEN [ok |-> TRUE, panic |-> FALSE, mem |-> m]
    ELSE Bind(WriteWord(d, m, mark, ver, words[i + 1],
                        parse_table_address + 2 + 4 * i, checks),
              LAMBDA written :
                  IF ~written.ok THEN written
                  ELSE WriteWords(d, written.mem, mark, ver, words, i + 1,
                                  parse_table_address, checks))

\* Dictionary::analyze_text
analyze_text(d, m, mark, ver, text, parse_table_address, checks) ==
    Bind(WordsFrom(d.separators, text, 0, <<>>), LAMBDA lexed :
        IF lexed.panic
        THEN [ok |-> FALSE, panic |-> TRUE, mem |-> m, words |-> lexed.words]
        ELSE Bind(set_byte(m, mark, parse_table_address + 1, Len(lexed.words) % 256),
                  LAMBDA count :
             IF ~count.ok
             THEN [ok |-> FALSE, panic |-> FALSE, mem |-> count.mem, words |-> lexed.words]
             ELSE Bind(WriteWords(d, count.mem, mark, ver, lexed.words, 0,
                                  parse_table_address, checks),
                       LAMBDA written :
                  [ok |-> written.ok, panic |-> written.panic, mem |-> written.mem,
                   words |-> lexed.words])))

(***************************************************************************)
(* Tokenising typed lines into the parse table of a version 3 story file   *)
(* whose dictionary holds the words "." and "a".                           *)
(***************************************************************************)
TokMaxLen == 3

\* space, full stop, A and a-umlaut
TokChars == {32, 46, 65, 228}

TokTexts == UNION {[1..n -> TokChars] : n \in 0..TokMaxLen}

\* the separator bytes of the dictionary: "." alone, "." and a-umlaut
SeparatorLists == {<<46>>, <<46, 155>>}

TokParse == 64

\* the parse table at TokParse has room for one word less than a line of
\* TokMaxLen characters can hold
TokMark == TokParse + 2 + 4 * (TokMaxLen - 1)

ParseAddresses == {TokParse}

\* header, the parse table, then from the static mark the dictionary: the
\* separators, entries of 7 bytes, 2 entries
TokImage(separators) ==
    LET n == Len(separators)
        entries == TokMark + 4 + n
        stop == encode(3, <<46>>)
        a == encode(3, <<97>>)
    IN  [x \in 0..(entries + 13) |->
            IF x = 0 THEN 3
            ELSE IF x = 7 THEN 60
            ELSE IF x = 9 THEN TokMark
            ELSE IF x = 15 THEN TokMark
            ELSE IF x = TokParse THEN TokMaxLen - 1
            ELSE IF x = TokMark THEN n
            ELSE IF x \in (TokMark + 1)..(TokMark + n) THEN separators[x - TokMark]
            ELSE IF x = TokMark + n + 1 THEN 7
            ELSE IF x = TokMark + n + 3 THEN 2
            ELSE IF x = entries THEN HighByte(stop[1])
            ELSE IF x = entries + 1 THEN LowByte(stop[1])
            ELSE IF x = entries + 2 THEN HighByte(stop[2])
            ELSE IF x = entries + 3 THEN LowByte(stop[2])
            ELSE IF x = entries + 7 THEN HighByte(a[1])
            ELSE IF x = entries + 8 THEN LowByte(a[1])
            ELSE IF x = entries + 9 THEN HighByte(a[2])
            ELSE IF x = entries + 10 THEN LowByte(a[2])
            ELSE 0]

InitTokens ==
    /\ \E separators \in SeparatorLists :
          /\ Load(TokImage(separators))
          /\ current_frame = FirstFrame(TokImage(separators))
    /\ stack = <<>>
    /\ calls = <<>>
    /\ result = [op |-> "new", ok |-> TRUE, panic |-> FALSE]

\* sread: Dictionary::new, then analyze_text of the line
AnalyzeText(text, parse_table_address, checks) ==
    /\ ~Panicked
    /\ \E d \in {DictionaryNew(memory_map)} :
          /\ d.ok
          /\ \E r \in {analyze_text(d, memory_map, static_mark, version, text,
                                    parse_table_address, checks)} :
                /\ memory_map' = r.mem
                /\ result' = [op |-> "analyze_text", ok |-> r.ok, panic |-> r.panic,
                              text |-> text, separators |-> d.separators,
                              parse_table_address |-> parse_table_address,
                              words |-> r.words]
    /\ UNCHANGED <<static_mark, version, loaded, current_frame, stack, calls>>

NextTokens ==
    \E text \in TokTexts, parse \in ParseAddresses, checks \in BOOLEAN :
        AnalyzeText(text, parse, checks)

SpecTokens == InitTokens /\ [][NextTokens]_vars

\* a character of a word: neither the space nor a separator
WordChar(c, S) == c # 32 /\ c \notin S

\* the lexemes of s: its maximal runs of word characters and each of its
\* separators, with the offsets of their first bytes in s
Lexemes(s, S) ==
    {[text |-> SubSeq(s, a, b), position |-> ByteLen(SubSeq(s, 1, a - 1))] :
        <<a, b>> \in {p \in (1..Len(s)) \X (1..Len(s)) :
                        /\ p[1] <= p[2]
                        /\ \A k \in p[1]..p[2] : WordChar(s[k], S)
                        /\ p[1] > 1 => ~WordChar(s[p[1] - 1], S)
                        /\ p[2] < Len(s) => ~WordChar(s[p[2] + 1], S)}}
    \cup {[text |-> <<s[k]>>, position |-> ByteLen(SubSeq(s, 1, k - 1))] :
            k \in {j \in 1..Len(s) : s[j] \in S}}

\* C5: analyze_text emits, in the order of the input, every maximal run of
\* characters that are neither spaces nor separators as one lexeme at its
\* offset, and every separator as a lexeme of its own at its offset; it
\* emits nothing else.
C5_LexemesOfInput ==
    (result.op = "analyze_text" /\ result.ok) =>
        /\ {result.words[i] : i \in 1..Len(result.words)}
              = Lexemes(result.text, result.separators)
        /\ \A i \in 1..(Len(result.words) - 1) :
              result.words[i].position < result.words[i + 1].position

(***************************************************************************)
(* text.rs: DecoderV3, which versions 3 and later decode with; then the    *)
(* lookup of typed words in a dictionary whose keys are ".", "$a", "a",    *)
(* "aa", "mailbo" and "open".                                              *)
(***************************************************************************)
RECURSIVE read_zbytes(_, _)
\* read_zbytes: three z-characters a word, up to the word with the top bit
\* set
read_zbytes(m, address) ==
    LET v == MakeWord(m[address], m[address + 1])
        b == <<(v \div 1024) % 32, (v \div 32) % 32, v % 32>>
    IN  IF v >= 32768 THEN b ELSE b \o read_zbytes(m, address + 2)

\* decode_zscii: the mask 0x3E keeps bit 5 alone of b1 << 5
decode_zscii(b1, b2) ==
    LET z == 32 * (b1 % 2) + (b2 % 32)
    IN  IF z = 0 THEN 0
        ELSE IF z = 13 THEN 10
        ELSE IF z \in 32..126 THEN z
        ELSE 64

RECURSIVE DecodeFrom(_, _, _, _)
\* the loop of DecoderV3::decode from z-character k on, a the alphabet of
\* the next one.  The keys below hold no abbreviation (z-characters 1-3).
DecodeFrom(data, k, a, string) ==
    IF k > Len(data) THEN [ok |-> TRUE, text |-> string]
    ELSE LET c == data[k]
         IN  IF c = 0 THEN DecodeFrom(data, k + 1, 0, Append(string, 32))
             ELSE IF c \in 1..3 THEN [ok |-> FALSE, text |-> string]
             ELSE IF c = 4 THEN DecodeFrom(data, k + 1, 1, string)
             ELSE IF c = 5 THEN DecodeFrom(data, k + 1, 2, string)
             ELSE IF c = 6 /\ a = 2
             THEN IF k + 2 > Len(data) THEN [ok |-> FALSE, text |-> string]
                  ELSE DecodeFrom(data, k + 3, 0,
                                  Append(string, decode_zscii(data[k + 1], data[k + 2])))
             ELSE IF c = 7 /\ a = 2 THEN DecodeFrom(data, k + 1, 0, Append(string, 10))
             ELSE DecodeFrom(data, k + 1, 0, Append(string, alphabet[a + 1][c - 5]))

\* DecoderV3::decode
decode(m, address) == DecodeFrom(read_zbytes(m, address), 1, 0, <<>>)

\* the key of "$a": the z-characters 5, 6, 1, 4 ("$" is ZSCII 36, given by
\* its ten bits after the escape), 6 ("a") and the pad 5
DollarKey == <<MakeWord(20, 193), MakeWord(144, 197)>>

\* "open mailbox."
OpenMailbox == <<111, 112, 101, 110, 32, 109, 97, 105, 108, 98, 111, 120, 46>>

\* ".", "$a", "a", "aa", "mailbo" and "open"
DictKeys ==
    <<encode(3, <<46>>), DollarKey, encode(3, <<97>>), encode(3, <<97, 97>>),
      encode(3, SubSeq(OpenMailbox, 6, 11)), encode(3, SubSeq(OpenMailbox, 1, 4))>>

DictMaxLen == 3

\* "$", "." and "a"
DictChars == {36, 46, 97}

DictTexts == UNION {[1..n -> DictChars] : n \in 1..DictMaxLen} \cup {OpenMailbox}

DictParse == 64

\* the parse table has room for the words of any line of DictMaxLen
\* characters
DictMark == DictParse + 2 + 4 * DictMaxLen

\* header, the parse table, then from the static mark the dictionary: the
\* separator ".", entries of 7 bytes, one for each key
DictImageOf(keys) ==
    LET entries == DictMark + 5
    IN  [x \in 0..(entries + 7 * Len(keys) - 1) |->
            IF x = 0 THEN 3
            ELSE IF x = 7 THEN 60
            ELSE IF x = 9 THEN DictMark
            ELSE IF x = 15 THEN DictMark
            ELSE IF x = DictParse THEN DictMaxLen
            ELSE IF x = DictMark THEN 1
            ELSE IF x = DictMark + 1 THEN 46
            ELSE IF x = DictMark + 2 THEN 7
            ELSE IF x = DictMark + 4 THEN Len(keys)
            ELSE IF x >= entries /\ (x - entries) % 7 = 0
            THEN HighByte(keys[((x - entries) \div 7) + 1][1])
            ELSE IF x >= entries /\ (x - entries) % 7 = 1
            THEN LowByte(keys[((x - entries) \div 7) + 1][1])
            ELSE IF x >= entries /\ (x - entries) % 7 = 2
            THEN HighByte(keys[((x - entries) \div 7) + 1][2])
            ELSE IF x >= entries /\ (x - entries) % 7 = 3
            THEN LowByte(keys[((x - entries) \div 7) + 1][2])
            ELSE 0]

DictImage == Bind(DictKeys, LAMBDA keys : DictImageOf(keys))

InitDictionary ==
    /\ \E image \in {DictImage} :
          /\ Load(image)
          /\ current_frame = FirstFrame(image)
    /\ stack = <<>>
    /\ calls = <<>>
    /\ result = [op |-> "new", ok |-> TRUE, panic |-> FALSE]

NextDictionary ==
    \E text \in DictTexts, checks \in BOOLEAN : AnalyzeText(text, DictParse, checks)

SpecDictionary == InitDictionary /\ [][NextDictionary]_vars

\* the addresses of the entries of the dictionary of m
EntryAddresses(m) ==
    LET d == DictionaryNew(m)
    IN  {d.entries_address + i * d.entry_length : i \in 0..(d.entry_count - 1)}

\* the dictionary address that analyze_text wrote for word i (from 1)
WrittenEntry(i) == get_word(memory_map, result.parse_table_address + 4 * i - 2).value

\* C22: a typed word that is the lowercase text of a dictionary entry gets
\* that entry's address in the parse table, and a word whose encoded key
\* is the key of no entry gets 0.
C22_EncodeThenFind ==
    (result.op = "analyze_text" /\ result.ok) =>
        \A i \in 1..Len(result.words) :
            /\ \A e \in EntryAddresses(memory_map) :
                  (/\ decode(memory_map, e).ok
                   /\ to_lowercase(decode(memory_map, e).text) = result.words[i].text)
                      => WrittenEntry(i) = e
            /\ (\A e \in EntryAddresses(memory_map) :
                    <<get_word(memory_map, e).value, get_word(memory_map, e + 2).value>>
                        # encode(3, result.words[i].text))
                  => WrittenEntry(i) = 0

\* the entry of the dictionary of m whose key is the encoded text, 0 when
\* there is none
EntryOf(m, text) ==
    LET matches == {e \in EntryAddresses(m) :
                      <<get_word(m, e).value, get_word(m, e + 2).value>> = encode(3, text)}
    IN  IF matches = {} THEN 0 ELSE CHOOSE e \in matches : \A f \in matches : e <= f

\* the four bytes of the parse table for word i (from 1) are the entry of
\* the text, its length and its offset plus 2
ParsedAs(i, text, offset) ==
    LET addr == result.parse_table_address + 4 * i - 2
    IN  /\ get_word(memory_map, addr).value = EntryOf(memory_map, text)
        /\ memory_map[addr + 2] = Len(text)
        /\ memory_map[addr + 3] = offset + 2

\* the lexemes of the line that was analysed, and the one that is i-th
\* (from 1) by its offset
TypedLexemes == Lexemes(result.text, result.separators)

NthLexeme(i) ==
    CHOOSE l \in TypedLexemes :
        Cardinality({k \in TypedLexemes : k.position < l.position}) = i - 1

\* C23: analyze_text writes the number of lexemes at byte 1 of the parse
\* table and, for lexeme i (from 0), at parse table + 2 + 4 * i the address
\* of its dictionary entry (0 if it has none), its length and its offset
\* plus 2; "open mailbox." with the separator "." gives 3 lexemes, "open"
\* at 0, "mailbox" at 5 and "." at 12.
C23_ParseTableLayout ==
    (result.op = "analyze_text" /\ result.ok) =>
        /\ memory_map[result.parse_table_address + 1] = Cardinality(TypedLexemes)
        /\ \A i \in 1..Cardinality(TypedLexemes) :
              ParsedAs(i, NthLexeme(i).text, NthLexeme(i).position)
        /\ result.text = OpenMailbox =>
              /\ memory_map[result.parse_table_address + 1] = 3
              /\ ParsedAs(1, SubSeq(OpenMailbox, 1, 4), 0)
              /\ ParsedAs(2, SubSeq(OpenMailbox, 6, 12), 5)
              /\ ParsedAs(3, <<46>>, 12)
              /\ \A i \in 1..3 : WrittenEntry(i) # 0

(***************************************************************************)
(* Memory: failed word writes and reads beyond the image or the bottom     *)
(* 64k.                                                                    *)
(***************************************************************************)
\* C11: a set_word that fails with WriteViolation leaves every byte of
\* memory as it was, also at the address just below the static mark, where
\* the first byte is writable and the second is not.
C11_FailedWordWriteLeavesMemory ==
    (result.op = "set_word" /\ ~result.ok) => memory_map = result.before

\* an image larger than 64k, as version 5 and later allow, and a short one
LargeLen == 65538

LargeMark == 64

LargeAddrs == {LargeMark - 2, LargeMark - 1, 65535, 65536, LargeLen - 1, LargeLen, LargeLen + 1}

LargeImage ==
    [a \in 0..(LargeLen - 1) |->
        IF a = 0 THEN 5
        ELSE IF a = 14 THEN HighByte(LargeMark)
        ELSE IF a = 15 THEN LowByte(LargeMark)
        ELSE (a * 7 + 1) % 256]

\* the same story cut off two bytes after the static mark
ShortImage == [a \in 0..(LargeMark + 1) |-> LargeImage[a]]

InitLarge ==
    /\ \E image \in {ShortImage, LargeImage} : Load(image)
    /\ current_frame = NoFrame
    /\ stack = <<>>
    /\ calls = <<>>
    /\ result = [op |-> "load", ok |-> TRUE]

NextLarge ==
    \/ \E a \in LargeAddrs, v \in MemByteValues : SetByte(a, v)
    \/ \E a \in LargeAddrs, w \in MemWordValues : SetWord(a, w)
    \/ \E a \in LargeAddrs : GetByte(a)
    \/ \E a \in LargeAddrs : GetWord(a)

SpecLarge == InitLarge /\ [][NextLarge]_vars

\* C12 as stated: get_byte(a) returns the image byte at a for every a
\* below the image length N, also at and above 0x10000, fails exactly when
\* a >= N, and changes no memory.
C12_ReadsWholeImage ==
    result.op = "get_byte" =>
        /\ result.ok <=> result.address \in DOMAIN result.before
        /\ result.ok => result.value = result.before[result.address]
        /\ memory_map = result.before

\* C12, amended: get_byte(a) returns the image byte at a for every a that
\* is below the image length and at most 0xFFFF, fails with ReadViolation
\* exactly when a is beyond the image or above 0xFFFF, and changes no
\* memory.
C12_ReadsBottom64k ==
    result.op = "get_byte" =>
        /\ result.ok <=> (result.address \in DOMAIN result.before
                          /\ result.address <= 65535)
        /\ result.ok => result.value = result.before[result.address]
        /\ memory_map = result.before

\* a byte of the image above 0xFFFF was asked for and refused
C12_Witness ==
    /\ result.op = "get_byte"
    /\ result.address > 65535
    /\ result.address \in DOMAIN memory_map
    /\ ~result.ok

(***************************************************************************)
(* Frames: a return without a caller, a call of packed address 0.          *)
(***************************************************************************)
\* C13: return_from(v) with no caller frame on the frame stack ends with
\* an error: it is refused, the interpreter does not crash and the frame
\* stack stays empty.
C13_ReturnWithoutCallerFails ==
    (result.op = "return_from" /\ result.pending = <<>>) =>
        /\ ~result.ok
        /\ ~result.panic
        /\ stack = <<>>

\* FrameStack::call with packed address 0, the state before it kept
CallZero(arguments, return_variable, return_address) ==
    /\ ~Panicked
    /\ \E r \in {call(FsState, version, 0, arguments, return_variable, return_address)} :
          /\ FsApply(r.fs)
          /\ UNCHANGED calls
          /\ result' = [op |-> "call", ok |-> r.ok, panic |-> r.panic, value |-> r.value,
                        packed_address |-> 0, arguments |-> arguments,
                        return_variable |-> return_variable,
                        return_address |-> return_address,
                        before |-> FsState]

\* the routine with two locals in version 3
ZeroPackedAddresses == {36}

\* the arguments of a call of address 0 are dropped
ZeroArgLists == {<<161>>}

ZeroCallVariables == {None, 1}

NextCallZero ==
    \/ \E args \in ZeroArgLists, rv \in ReturnVariables, ra \in ReturnAddresses :
          CallZero(args, rv, ra)
    \/ \E p \in ZeroPackedAddresses, rv \in ZeroCallVariables, ra \in ReturnAddresses :
          Call(p, <<>>, rv, ra)
    \/ \E v \in FrameValues : ReturnFrom(v)

SpecCallZero == InitFrames /\ [][NextCallZero]_vars

\* C14: a call of packed address 0 pushes no frame: it writes 0 to the
\* store variable if there is one and changes nothing else (the locals
\* stay as they were unless the store variable is one of them, the frame
\* stack keeps its depth), and it returns the return address as the next
\* pc; it is refused, with nothing changed, only when the store variable is
\* a local the frame does not have.
C14_CallZeroStoresZero ==
    (result.op = "call" /\ result.packed_address = 0) =>
        LET var == result.return_variable
            b == result.before
        IN  /\ ~result.panic
            /\ stack = b.stk
            /\ result.ok <=> ~(var \in 1..15 /\ var > Len(b.cur.local_variables))
            /\ ~result.ok => (current_frame = b.cur /\ memory_map = b.mem)
            /\ result.ok =>
                  /\ result.value = result.return_address
                  /\ current_frame =
                        IF var = 0 THEN [b.cur EXCEPT !.stack = Append(@, 0)]
                        ELSE IF var \in 1..15
                        THEN [b.cur EXCEPT !.local_variables[var] = 0]
                        ELSE b.cur
                  /\ memory_map =
                        IF var >= 16
                        THEN [b.mem EXCEPT ![b.gvt + 2 * (var - 16)] = 0,
                                           ![b.gvt + 2 * (var - 16) + 1] = 0]
                        ELSE b.mem

\* inside a routine with locals and a value on its stack, a call of packed
\* address 0 has stored 0 in the first local
C14_Witness ==
    /\ result.op = "call"
    /\ result.packed_address = 0
    /\ result.ok
    /\ result.return_variable = 1
    /\ result.before.cur.local_variables[1] # 0
    /\ result.before.cur.stack # <<>>
    /\ Len(stack) = 1
    /\ current_frame.local_variables[1] = 0

(***************************************************************************)
(* instruction.rs: decode_instruction.  The decoder indexes the image      *)
(* vector directly, so a read outside it is a panic: every stage carries   *)
(* the set of addresses it read, and the decoding panics when one of them  *)
(* is not in the image.                                                    *)
(***************************************************************************)
\* read_byte, of an address in the image (0 stands in outside it)
ReadByte(m, address) == IF address \in DOMAIN m THEN m[address] ELSE 0

\* read_word
ReadWord(m, address) == MakeWord(ReadByte(m, address), ReadByte(m, address + 1))

\* OpcodeForm::from
OpcodeFormOf(opcode) ==
    IF opcode = 190 THEN "Extended"
    ELSE IF (opcode \div 64) % 4 = 2 THEN "Short"
    ELSE IF (opcode \div 64) % 4 = 3 THEN "Variable"
    ELSE "Long"

\* OperandType::from
OperandTypeOf(v) ==
    IF v % 4 = 0 THEN "LargeConstant"
    ELSE IF v % 4 = 1 THEN "SmallConstant"
    ELSE IF v % 4 = 2 THEN "Variable"
    ELSE "Omitted"

\* the loop over the four fields of an operand-type byte, high bits first,
\* up to the first Omitted
TypesOfByte(types) ==
    LET field(i) == OperandTypeOf(types \div (2 ^ (6 - 2 * i)))
        given == {i \in 0..3 : \A j \in 0..i : field(j) # "Omitted"}
    IN  [i \in 1..Cardinality(given) |-> field(i - 1)]

\* decode_instruction, the match on the form: the operand types, the bytes
\* used so far, the extended opcode if any
DecodeTypes(m, address, opcode_byte) ==
    LET form == OpcodeFormOf(opcode_byte)
    IN  IF form = "Long"
        THEN [operand_types |->
                 <<IF (opcode_byte \div 64) % 2 = 1 THEN "Variable" ELSE "SmallConstant",
                   IF (opcode_byte \div 32) % 2 = 1 THEN "Variable" ELSE "SmallConstant">>,
              skip |-> 1, ext_opcode |-> None, reads |-> {}]
        ELSE IF form = "Short"
        THEN [operand_types |->
                 IF OperandTypeOf(opcode_byte \div 16) = "Omitted" THEN <<>>
                 ELSE <<OperandTypeOf(opcode_byte \div 16)>>,
              skip |-> 1, ext_opcode |-> None, reads |-> {}]
        ELSE IF form = "Variable"
        THEN IF opcode_byte % 32 \in {12, 26}
             THEN [operand_types |-> TypesOfByte(ReadByte(m, address + 1))
                                     \o TypesOfByte(ReadByte(m, address + 2)),
                   skip |-> 3, ext_opcode |-> None,
                   reads |-> {address + 1, address + 2}]
             ELSE [operand_types |-> TypesOfByte(ReadByte(m, address + 1)),
                   skip |-> 2, ext_opcode |-> None, reads |-> {address + 1}]
        ELSE [operand_types |-> TypesOfByte(ReadByte(m, address + 2)),
              skip |-> 3, ext_opcode |-> ReadByte(m, address + 1),
              reads |-> {address + 1, address + 2}]

RECURSIVE DecodeOperands(_, _, _, _, _)
\* decode_instruction, the loop over the operand types from type k on: one
\* byte for a small constant or a variable, a word for a large constant
DecodeOperands(m, address, operand_types, k, d) ==
    IF k > Len(operand_types) THEN d
    ELSE IF operand_types[k] = "LargeConstant"
    THEN DecodeOperands(m, address, operand_types, k + 1,
             [operands |-> Append(d.operands, ReadWord(m, address + d.skip)),
              skip |-> d.skip + 2,
              reads |-> d.reads \cup {address + d.skip, address + d.skip + 1}])
    ELSE DecodeOperands(m, address, operand_types, k + 1,
             [operands |-> Append(d.operands, ReadByte(m, address + d.skip)),
              skip |-> d.skip + 1,
              reads |-> d.reads \cup {address + d.skip}])

\* get_store_variable, whether the opcode stores: the opcode is the first
\* byte of the instruction, 0xBE for every extended one
HasStore(m, opcode, form) ==
    IF form = "Extended" THEN opcode \in {1, 2, 3, 4, 9, 10, 19, 29}
    ELSE IF opcode \in 0..127 \/ opcode \in 192..223
    THEN opcode % 32 \in {8, 9} \cup 15..25
    ELSE IF opcode \in 128..175
    THEN \/ opcode % 16 \in {1, 2, 3, 4, 8, 14}
         \/ opcode % 16 = 15 /\ ReadByte(m, 0) < 5
    ELSE IF opcode \in 176..191
    THEN \/ opcode % 16 \in {5, 6} /\ ReadByte(m, 0) = 4
         \/ opcode % 16 = 9 /\ ReadByte(m, 0) > 4
    ELSE \/ opcode % 32 \in {0, 7, 12, 22, 23, 24}
         \/ opcode % 32 = 4 /\ ReadByte(m, 0) > 4
         \/ opcode % 32 = 9 /\ ReadByte(m, 0) = 6

\* get_store_variable
get_store_variable(m, address, opcode, form) ==
    IF HasStore(m, opcode, form)
    THEN [store_variable |-> ReadByte(m, address), reads |-> {address}]
    ELSE [store_variable |-> None, reads |-> {}]

\* a decode_branch_offset that takes the long form for one byte shorter
decode_branch_offset_plain(m, address) ==
    LET b1 == ReadByte(m, address)
        condition == b1 >= 128
        short == (b1 \div 64) % 2 = 1
        high == IF (b1 % 64) >= 32 THEN (b1 % 64) + 192 ELSE b1 % 64
        offset == IF short THEN b1 % 64
                  ELSE AsI16(MakeWord(high, ReadByte(m, address + 1)))
        size == IF short THEN 1 ELSE 2
    IN  [branch_offset |->
            <<[condition |-> condition,
               return_value |-> IF offset \in {0, 1} THEN offset ELSE None,
               address |-> IF offset \in {0, 1} THEN None ELSE address + offset - 1]>>,
         size |-> size,
         reads |-> IF short THEN {address} ELSE {address, address + 1}]

\* decode_branch_offset: one byte when bit 6 is set, else a signed 14-bit
\* offset in two; offsets 0 and 1 return that value
decode_branch_offset(m, address) ==
    LET b1 == ReadByte(m, address)
        condition == b1 >= 128
        short == (b1 \div 64) % 2 = 1
        high == IF (b1 % 64) >= 32 THEN (b1 % 64) + 192 ELSE b1 % 64
        offset == IF short THEN b1 % 64
                  ELSE AsI16(MakeWord(high, ReadByte(m, address + 1)))
        size == IF short THEN 1 ELSE 2
    IN  [branch_offset |->
            <<[condition |-> condition,
               return_value |-> IF offset \in {0, 1} THEN offset ELSE None,
               address |-> IF offset \in {0, 1} THEN None
                           ELSE IF short THEN address + offset - 1
                           ELSE address + offset]>>,
         size |-> size,
         reads |-> IF short THEN {address} ELSE {address, address + 1}]

\* get_branch_offset, whether the opcode branches
HasBranch(m, opcode, form) ==
    IF form = "Extended" THEN opcode \in {6, 24, 27}
    ELSE IF opcode \in 0..127 \/ opcode \in 192..223
    THEN opcode % 32 \in {1, 2, 3, 4, 5, 6, 7, 10}
    ELSE IF opcode \in 128..175
    THEN opcode % 16 \in {0, 1, 2}
    ELSE IF opcode \in 176..191
    THEN \/ opcode % 16 \in {13, 15}
         \/ opcode % 16 \in {5, 6} /\ ReadByte(m, 0) < 4
    ELSE opcode % 32 \in {17, 31}

\* get_branch_offset
get_branch_offset(m, address, opcode, form) ==
    IF HasBranch(m, opcode, form) THEN decode_branch_offset(m, address)
    ELSE [branch_offset |-> <<>>, size |-> 0, reads |-> {}]

RECURSIVE LiteralFrom(_, _, _)
\* get_literal_string, the loop: words are read up to the first one with
\* its top bit set
LiteralFrom(m, address, size) ==
    IF address + size + 1 \notin DOMAIN m
    THEN [size |-> size + 2, reads |-> {address + size, address + size + 1}]
    ELSE IF ReadWord(m, address + size) >= 32768
    THEN [size |-> size + 2, reads |-> {}]
    ELSE LiteralFrom(m, address, size + 2)

\* a get_literal_string that stops after the first word
get_literal_string_word(m, address, opcode, form) ==
    IF form # "Extended" /\ opcode \in {178, 179}
    THEN [size |-> 2, reads |-> {address, address + 1}]
    ELSE [size |-> 0, reads |-> {}]

\* get_literal_string
get_literal_string(m, address, opcode, form) ==
    IF form # "Extended" /\ opcode \in {178, 179} THEN LiteralFrom(m, address, 0)
    ELSE [size |-> 0, reads |-> {}]

\* decode_instruction
decode_instruction(m, address) ==
    LET opcode_byte == ReadByte(m, address)
        form == OpcodeFormOf(opcode_byte)
        types == DecodeTypes(m, address, opcode_byte)
        ops == DecodeOperands(m, address, types.operand_types, 1,
                                   [operands |-> <<>>, skip |-> types.skip, reads |-> {}])
        st == get_store_variable(m, address + ops.skip, opcode_byte, form)
        after_store == ops.skip + IF st.store_variable # None THEN 1 ELSE 0
        br == get_branch_offset(m, address + after_store, opcode_byte, form)
        lit == get_literal_string(m, address + after_store + br.size,
                                      opcode_byte, form)
        reads == {address} \cup types.reads \cup ops.reads \cup st.reads
                 \cup br.reads \cup lit.reads
    IN  [panic |-> ~(reads \subseteq DOMAIN m),
         instruction |->
            [address |-> address, form |-> form,
             opcode |-> IF types.ext_opcode # None THEN types.ext_opcode ELSE opcode_byte,
             operand_types |-> types.operand_types,
             operands |-> ops.operands,
             store_variable |-> st.store_variable,
             branch_offset |-> br.branch_offset,
             next_pc |-> address + after_store + br.size + lit.size]]

(***************************************************************************)
(* main.rs: the fetch-execute loop on version 3 story files whose code     *)
(* starts at MainStart with a loop that counts global 16 up to             *)
(* MainMaxCount.  result holds main's own state: its pc, whether it is     *)
(* running, waiting for the key after an error or gone, its exit status,   *)
(* what it printed through the interface.                                  *)
(***************************************************************************)
MainMaxCount == 5

MainStart == 70

\* inc_chk G00,#MainMaxCount ?~(itself): a long 2OP:5 with a two-byte
\* branch on false of offset -3
CountingLoop == <<5, 16, MainMaxCount, 63, 253>>

\* what follows the loop: nop, quit, nop; je (SP),#3 ?(+2), nop; rtrue;
\* nop and the end of the image; 2OP:25 (not an opcode of version 3), nop;
\* div G00,#0 -> G01, nop; mod G00,#0 -> G01, nop
MainPrograms ==
    { CountingLoop \o <<180, 186, 180>>,
      CountingLoop \o <<65, 0, 3, 194, 180>>,
      CountingLoop \o <<176>>,
      CountingLoop \o <<180>>,
      CountingLoop \o <<25, 1, 1, 0, 180>>,
      CountingLoop \o <<87, 16, 0, 17, 180>>,
      CountingLoop \o <<88, 16, 0, 17, 180>> }

\* header (pc at MainStart, an empty dictionary at 32, globals at 64, static
\* mark at 68), global 16 set to count, then the program up to the end of
\* the image
MainImage(program, count) ==
    [a \in 0..(MainStart + Len(program) - 1) |->
        IF a = 0 THEN 3
        ELSE IF a = 7 THEN MainStart
        ELSE IF a = 9 THEN 32
        ELSE IF a = 13 THEN 64
        ELSE IF a = 15 THEN 68
        ELSE IF a = 65 THEN count
        ELSE IF a >= MainStart THEN program[a - MainStart + 1]
        ELSE 0]

\* main, up to the loop: the story file loads, FrameStack::new succeeds
\* and framestack.pc() is the pc of the first frame
InitMain ==
    /\ \E program \in MainPrograms, count \in 0..MainMaxCount :
          /\ Load(MainImage(program, count))
          /\ DictionaryNew(MainImage(program, count)).ok
          /\ current_frame = FirstFrame(MainImage(program, count))
    /\ stack = <<>>
    /\ calls = <<>>
    /\ result = [op |-> "main", status |-> "running", pc |-> current_frame.pc,
                 exit_code |-> None, printed |-> <<>>, executed |-> 0,
                 opcode |-> None, failed |-> FALSE, panic |-> FALSE]

\* one turn of the loop of main: decode (a panic ends the process with
\* status 101), execute, then the new pc, or the error printed and the key
\* waited for
MainStep(checks) ==
    /\ result.status = "running"
    /\ \E d \in {decode_instruction(memory_map, result.pc)} :
          IF d.panic
          THEN /\ result' = [result EXCEPT !.status = "exited", !.exit_code = 101,
                                           !.failed = TRUE, !.panic = TRUE]
               /\ UNCHANGED <<memory_map, current_frame, stack>>
          ELSE \E es \in {execute(d.instruction, FsState, version, checks)} :
                  /\ memory_map' = es.fs.mem
                  /\ current_frame' = es.fs.cur
                  /\ stack' = es.fs.stk
                  /\ result' =
                        IF es.panic
                        THEN [result EXCEPT !.status = "exited", !.exit_code = 101,
                                            !.failed = TRUE, !.panic = TRUE,
                                            !.executed = @ + 1,
                                            !.opcode = d.instruction.opcode]
                        ELSE IF ~es.ok
                        THEN [result EXCEPT !.status = "waiting", !.failed = TRUE,
                                            !.printed = Append(@, "error"),
                                            !.executed = @ + 1,
                                            !.opcode = d.instruction.opcode]
                        ELSE [result EXCEPT !.pc = es.value, !.executed = @ + 1,
                                            !.opcode = d.instruction.opcode]
    /\ UNCHANGED <<static_mark, version, loaded, calls>>

\* interface.window.get_input() returns, the loop is left and main returns
KeyPressed ==
    /\ result.status = "waiting"
    /\ result' = [result EXCEPT !.status = "exited", !.exit_code = 0]
    /\ UNCHANGED <<memory_map, static_mark, version, loaded, current_frame, stack, calls>>

NextMain ==
    \/ \E checks \in BOOLEAN : MainStep(checks)
    \/ KeyPressed

SpecMain == InitMain /\ [][NextMain]_vars

\* the last instruction executed was quit (0OP:10, byte 0xBA)
QuitExecuted == result.op = "main" /\ result.opcode = 186

\* C15: executing quit ends the loop cleanly: no further instruction is
\* executed, nothing is printed as an error, and the process ends with
\* exit status 0.
C15_QuitIsCleanExit ==
    QuitExecuted =>
        /\ result.status # "running"
        /\ result.printed = <<>>
        /\ result.status = "exited" => result.exit_code = 0

\* the last instruction executed was the div or the mod by zero
DividedByZero == result.op = "main" /\ result.opcode \in {87, 88}

\* C21: div and mod with a divisor of 0 fail with an error, the store
\* variable (global 17 here) is not written, and the loop ends without
\* executing another instruction.
C21_DivisionByZeroFails ==
    DividedByZero =>
        /\ result.failed
        /\ ~result.panic
        /\ result.status # "running"
        /\ result.printed # <<>>
        /\ get_word(memory_map, 66) = get_word(loaded, 66)
        /\ result.pc = MainStart + Len(CountingLoop)

\* the div by zero ended the loop and main returned
C21_Witness ==
    /\ result.op = "main"
    /\ result.opcode = 87
    /\ result.status = "exited"
    /\ result.failed
    /\ get_word(memory_map, 64).value = MainMaxCount + 1

\* C16: once decoding or executing an instruction has raised an error the
\* loop is over, the error has been printed through the interface, and the
\* process ends with a nonzero exit status.
C16_ErrorEndsWithNonzeroStatus ==
    (result.op = "main" /\ result.failed) =>
        /\ result.status # "running"
        /\ result.printed # <<>>
        /\ result.status = "exited" => result.exit_code \notin {None, 0}

(***************************************************************************)
(* object_table.rs: the properties of an object.  A property is the record *)
(* [number, size, data_address, data] that Property::load makes of it.     *)
(***************************************************************************)
RECURSIVE PropertiesFrom(_, _)
\* the loop of PropertyTable::load over the properties at prop_addr.. of a
\* version 3 table that PropertiesReadable has found whole
PropertiesFrom(m, prop_addr) ==
    LET size_byte == m[prop_addr]
        size == (size_byte \div 32) + 1
    IN  IF size_byte = 0 THEN <<>>
        ELSE <<[number |-> size_byte % 32, size |-> size, data_address |-> prop_addr + 1,
                data |-> [i \in 1..size |-> m[prop_addr + i]]]>>
             \o PropertiesFrom(m, prop_addr + 1 + size)

\* the properties of a loaded object
PropertiesOf(m, o) == PropertiesFrom(m, o.property_table + 1 + 2 * m[o.property_table])

\* PropertyTable::get_property: the first property of that number, <<>> for
\* None
get_property(properties, property_number) ==
    LET found == {i \in 1..Len(properties) : properties[i].number = property_number}
    IN  IF found = {} THEN <<>>
        ELSE <<properties[CHOOSE i \in found : \A j \in found : i <= j]>>

\* default_properties.get(property_number - 1) of the 31 words that
\* ObjectTable::new reads: the subtraction underflows for property 0
DefaultProperty(m, base, property_number, checks) ==
    IF property_number = 0
    THEN [outcome |-> IF checks THEN "panic" ELSE "err", value |-> 0]
    ELSE IF property_number > 31 THEN [outcome |-> "err", value |-> 0]
    ELSE [outcome |-> "ok", value |-> get_word(m, base + 2 * (property_number - 1)).value]

\* a get_property_value that has a single byte as the high half
get_property_value_high(m, base, object_number, property_number, checks) ==
    Bind(get_object(m, base, object_number, checks), LAMBDA o :
        IF o.outcome # "ok" THEN [outcome |-> o.outcome, value |-> 0]
        ELSE Bind(get_property(PropertiesOf(m, o.object), property_number), LAMBDA p :
            IF p = <<>> THEN DefaultProperty(m, base, property_number, checks)
            ELSE IF p[1].size = 1 THEN [outcome |-> "ok", value |-> p[1].data[1] * 256]
            ELSE IF p[1].size = 2
            THEN [outcome |-> "ok", value |-> MakeWord(p[1].data[1], p[1].data[2])]
            ELSE [outcome |-> "err", value |-> 0]))

\* ObjectTable::get_property_value
get_property_value(m, base, object_number, property_number, checks) ==
    Bind(get_object(m, base, object_number, checks), LAMBDA o :
        IF o.outcome # "ok" THEN [outcome |-> o.outcome, value |-> 0]
        ELSE Bind(get_property(PropertiesOf(m, o.object), property_number), LAMBDA p :
            IF p = <<>> THEN DefaultProperty(m, base, property_number, checks)
            ELSE IF p[1].size = 1 THEN [outcome |-> "ok", value |-> p[1].data[1]]
            ELSE IF p[1].size = 2
            THEN [outcome |-> "ok", value |-> MakeWord(p[1].data[1], p[1].data[2])]
            ELSE [outcome |-> "err", value |-> 0]))

\* PropertyTable::set_property, the new data of a property of size 1 or 2
set_property(size, value) ==
    IF size = 1 THEN <<value % 256>> ELSE <<(value \div 256) % 256, value % 256>>

RECURSIVE PropertySave(_, _, _, _, _)
\* Property::save: the data bytes i.. (from 0) written one by one, given up
\* at the first write that fails
PropertySave(m, mark, data_address, data, i) ==
    IF i >= Len(data) THEN [outcome |-> "ok", mem |-> m]
    ELSE Bind(set_byte(m, mark, data_address + i, data[i + 1]), LAMBDA written :
             IF ~written.ok THEN [outcome |-> "err", mem |-> written.mem]
             ELSE PropertySave(written.mem, mark, data_address, data, i + 1))

\* a put_property_data that stores the high byte in a property of size 1
put_property_data_high(m, mark, base, object_number, property_number, value, checks) ==
    Bind(get_object(m, base, object_number, checks), LAMBDA o :
        IF o.outcome # "ok" THEN [outcome |-> o.outcome, mem |-> m]
        ELSE Bind(get_property(PropertiesOf(m, o.object), property_number), LAMBDA p :
            IF p = <<>> THEN [outcome |-> "err", mem |-> m]
            ELSE IF p[1].size > 2 THEN [outcome |-> "err", mem |-> m]
            ELSE PropertySave(m, mark, p[1].data_address,
                              set_property(p[1].size, value \div 256), 0)))

\* ObjectTable::put_property_data
put_property_data(m, mark, base, object_number, property_number, value, checks) ==
    Bind(get_object(m, base, object_number, checks), LAMBDA o :
        IF o.outcome # "ok" THEN [outcome |-> o.outcome, mem |-> m]
        ELSE Bind(get_property(PropertiesOf(m, o.object), property_number), LAMBDA p :
            IF p = <<>> THEN [outcome |-> "err", mem |-> m]
            ELSE IF p[1].size > 2 THEN [outcome |-> "err", mem |-> m]
            ELSE PropertySave(m, mark, p[1].data_address,
                              set_property(p[1].size, value), 0)))

(***************************************************************************)
(* Two objects of a version 3 story: the first has property 5 of two       *)
(* bytes, property 3 of one byte and property 2 of three bytes, the second *)
(* has none.  Default p is the word 0x10pp.                                *)
(***************************************************************************)
PropTable == 64 + 62 + 9 * 2

\* the property table of object 1: no short name, then the three properties and
\* the 0 that ends them; the table of object 2 follows
PropBytes == <<0, 37, 1, 2, 3, 7, 66, 9, 9, 9, 0, 0, 0>>

PropLen == PropTable + Len(PropBytes)

PropImage ==
    [a \in 0..(PropLen - 1) |->
        IF a = 0 THEN 3
        ELSE IF a = 11 THEN 64
        ELSE IF a = 14 THEN HighByte(PropLen)
        ELSE IF a = 15 THEN LowByte(PropLen)
        ELSE IF a >= 64 /\ a < 126 THEN IF a % 2 = 0 THEN 16 ELSE ((a - 64) \div 2) + 1
        ELSE IF a = 126 + 7 THEN HighByte(PropTable)
        ELSE IF a = 126 + 8 THEN LowByte(PropTable)
        ELSE IF a = 135 + 7 THEN HighByte(PropTable + 11)
        ELSE IF a = 135 + 8 THEN LowByte(PropTable + 11)
        ELSE IF a >= PropTable THEN PropBytes[a - PropTable + 1]
        ELSE 0]

PropObjects == {1, 2}

\* the properties of object 1, one it has not, the last, and two numbers
\* that no property has
PropNumbers == {0, 2, 3, 4, 5, 31, 32}

PropValues == {0, 258, 4660, 65535}

InitProperties ==
    /\ Load(PropImage)
    /\ current_frame = NoFrame
    /\ stack = <<>>
    /\ calls = <<>>
    /\ result = [op |-> "new", ok |-> TRUE, panic |-> FALSE]

GetPropertyValue(object_number, property_number, checks) ==
    \E r \in {get_property_value(memory_map, ObjectTableAddress(loaded), object_number,
                                property_number, checks)} :
        /\ ~Panicked
        /\ result' = [op |-> "get_property_value", ok |-> r.outcome = "ok",
                      panic |-> r.outcome = "panic", outcome |-> r.outcome,
                      value |-> r.value, object_number |-> object_number,
                      property_number |-> property_number, before |-> memory_map]
        /\ UNCHANGED <<memory_map, static_mark, version, loaded, current_frame, stack,
                       calls>>

PutPropertyData(object_number, property_number, value, checks) ==
    \E r \in {put_property_data(memory_map, static_mark, ObjectTableAddress(loaded),
                               object_number, property_number, value, checks)} :
        /\ ~Panicked
        /\ memory_map' = r.mem
        /\ result' = [op |-> "put_property_data", ok |-> r.outcome = "ok",
                      panic |-> r.outcome = "panic", outcome |-> r.outcome,
                      value |-> value, object_number |-> object_number,
                      property_number |-> property_number, before |-> memory_map]
        /\ UNCHANGED <<static_mark, version, loaded, current_frame, stack, calls>>

NextProperties ==
    \/ \E n \in PropObjects, p \in PropNumbers, checks \in BOOLEAN :
          GetPropertyValue(n, p, checks)
    \/ \E n \in PropObjects, p \in PropNumbers, v \in PropValues, checks \in BOOLEAN :
          PutPropertyData(n, p, v, checks)

SpecProperties == InitProperties /\ [][NextProperties]_vars

\* where the image has the data of property p of object n, and how many
\* bytes; no bytes when the object has no such property
DataOf(n, p) ==
    IF n = 1 /\ p = 5 THEN [address |-> PropTable + 2, size |-> 2]
    ELSE IF n = 1 /\ p = 3 THEN [address |-> PropTable + 5, size |-> 1]
    ELSE IF n = 1 /\ p = 2 THEN [address |-> PropTable + 7, size |-> 3]
    ELSE [address |-> 0, size |-> 0]

\* C24: get_property_value(n, p) is the data byte, as the low half of the
\* value, of a property of length 1, the big-endian word of one of length
\* 2, an error for a longer one, and the default word of p when object n
\* has no property p; it never changes memory.
C24_PropertyValue ==
    (result.op = "get_property_value" /\ result.property_number \in 1..31) =>
        LET at == DataOf(result.object_number, result.property_number)
        IN  /\ memory_map = result.before
            /\ at.size = 1 => result.ok /\ result.value = memory_map[at.address]
            /\ at.size = 2 =>
                  /\ result.ok
                  /\ result.value = 256 * memory_map[at.address] + memory_map[at.address + 1]
            /\ at.size > 2 => result.outcome = "err"
            /\ at.size = 0 =>
                  /\ result.ok
                  /\ result.value = 256 * memory_map[64 + 2 * (result.property_number - 1)]
                                    + memory_map[64 + 2 * (result.property_number - 1) + 1]

\* a property of one byte was read after it had been written, and a
\* default was read
C24_Witness ==
    /\ result.op = "get_property_value"
    /\ result.object_number = 1
    /\ result.property_number = 3
    /\ result.ok
    /\ result.value = 255
    /\ memory_map # loaded

\* C25: put_property_data(n, p, v) succeeds only when object n has
\* property p with length 1 or 2; it then stores the low byte of v, or the
\* whole word, in the data bytes of p, so that get_property_value(n, p)
\* returns it, and changes no other byte; when p is absent or longer it
\* fails and memory is unchanged.
C25_PutProperty ==
    (result.op = "put_property_data" /\ result.property_number \in 1..31) =>
        LET at == DataOf(result.object_number, result.property_number)
            read == get_property_value(memory_map, ObjectTableAddress(loaded),
                                       result.object_number, result.property_number, TRUE)
        IN  /\ result.ok <=> at.size \in {1, 2}
            /\ at.size = 1 => read.outcome = "ok" /\ read.value = result.value % 256
            /\ at.size = 2 => read.outcome = "ok" /\ read.value = result.value
            /\ at.size \in {1, 2} =>
                  \A a \in DOMAIN memory_map :
                      a \notin at.address..(at.address + at.size - 1)
                          => memory_map[a] = result.before[a]
            /\ at.size \notin {1, 2} => result.outcome = "err" /\ memory_map = result.before

\* the word 0x1234 was stored in the two bytes of property 5
C25_Witness ==
    /\ result.op = "put_property_data"
    /\ result.object_number = 1
    /\ result.property_number = 5
    /\ result.value = 4660
    /\ result.ok
    /\ memory_map[PropTable + 2] = 18
    /\ memory_map[PropTable + 3] = 52

(***************************************************************************)
(* Instructions executed in a version 3 story with the two objects above   *)
(* (object 2 is the child of object 1), two globals and a routine with one *)
(* local whose default is 5: calls and returns, stores and branches.       *)
(***************************************************************************)
RoutineGlobals == PropLen + 1

RoutineMark == RoutineGlobals + 4

RoutineAddress == RoutineMark + 2

RoutineLen == RoutineAddress + 6

RoutineImage ==
    [a \in 0..(RoutineLen - 1) |->
        IF a = 6 THEN HighByte(RoutineAddress + 4)
        ELSE IF a = 7 THEN LowByte(RoutineAddress + 4)
        ELSE IF a = 12 THEN HighByte(RoutineGlobals)
        ELSE IF a = 13 THEN LowByte(RoutineGlobals)
        ELSE IF a = 14 THEN HighByte(RoutineMark)
        ELSE IF a = 15 THEN LowByte(RoutineMark)
        ELSE IF a = 126 + 6 THEN 2
        ELSE IF a = 135 + 4 THEN 1
        ELSE IF a = RoutineGlobals + 1 THEN 3
        ELSE IF a = RoutineAddress THEN 1
        ELSE IF a = RoutineAddress + 2 THEN 5
        ELSE IF a < PropLen THEN PropImage[a]
        ELSE 0]

RoutineMaxDepth == 1

RoutineMaxStack == 1

RoutineMaxValue == 6

\* a decoded branch on a false condition, and one that returns 0
BranchUnless == <<[condition |-> FALSE, return_value |-> None, address |-> 120]>>

BranchReturnFalse == <<[condition |-> TRUE, return_value |-> 0, address |-> None]>>

\* what decode_instruction makes of the instructions named on the right
RoutineInstructions ==
    { Decoded(224, <<"LargeConstant">>, <<RoutineAddress \div 2>>,
              16, <<>>),                            \* call routine -> G00
      Decoded(224, <<"LargeConstant">>, <<RoutineAddress \div 2>>,
              0, <<>>),                             \* call routine -> (SP)
      Decoded(224, <<"LargeConstant">>, <<0>>,
              16, <<>>),                            \* call 0 -> G00
      Decoded(4, <<"SmallConstant", "SmallConstant">>, <<1, 5>>,
              None, BranchTo),                      \* dec_chk L01,#05
      Decoded(5, <<"SmallConstant", "SmallConstant">>, <<1, 5>>,
              None, BranchTo),                      \* inc_chk L01,#05
      Decoded(196, <<"SmallConstant", "LargeConstant">>, <<1, 65535>>,
              None, BranchTo),                      \* dec_chk L01,#ffff
      Decoded(197, <<"SmallConstant", "LargeConstant">>, <<1, 65535>>,
              None, BranchUnless),                  \* inc_chk L01,#ffff ?~
      Decoded(4, <<"SmallConstant", "SmallConstant">>, <<1, 3>>,
              None, BranchReturn),                  \* dec_chk L01,#03 ?rtrue
      Decoded(144, <<"SmallConstant">>, <<0>>,
              None, BranchTo),                      \* jz #00
      Decoded(144, <<"SmallConstant">>, <<0>>,
              None, BranchUnless),                  \* jz #00 ?~
      Decoded(144, <<"SmallConstant">>, <<0>>,
              None, BranchReturnFalse),             \* jz #00 ?rfalse
      Decoded(146, <<"SmallConstant">>, <<1>>,
              0, BranchReturn),                     \* get_child #01 -> (SP) ?rtrue
      Decoded(146, <<"SmallConstant">>, <<2>>,
              0, BranchReturn),                     \* get_child #02 -> (SP) ?rtrue
      Decoded(146, <<"SmallConstant">>, <<1>>,
              16, BranchTo),                        \* get_child #01 -> G00
      Decoded(146, <<"SmallConstant">>, <<2>>,
              16, BranchTo),                        \* get_child #02 -> G00
      Decoded(155, <<"SmallConstant">>, <<2>>,
              None, <<>>),                          \* ret #02
      Decoded(176, <<>>, <<>>, None, <<>>),        \* rtrue
      Decoded(177, <<>>, <<>>, None, <<>>) }       \* rfalse

RoutineValue(v) == v <= RoutineMaxValue \/ v = 65535

\* the frames, stacks and values kept small
RoutineBounded(fs) ==
    /\ Len(fs.stk) <= RoutineMaxDepth
    /\ Len(fs.cur.stack) <= RoutineMaxStack
    /\ \A i \in 1..Len(fs.cur.local_variables) : RoutineValue(fs.cur.local_variables[i])

InitRoutine ==
    /\ Load(RoutineImage)
    /\ current_frame = FirstFrame(RoutineImage)
    /\ stack = <<>>
    /\ calls = <<>>
    /\ result = [op |-> "new", ok |-> TRUE, panic |-> FALSE]

ExecuteInRoutine(inst, checks) ==
    /\ ~Panicked
    /\ \E es \in {execute(inst, FsState, version, checks)} :
          /\ RoutineBounded(es.fs)
          /\ memory_map' = es.fs.mem
          /\ current_frame' = es.fs.cur
          /\ stack' = es.fs.stk
          /\ UNCHANGED <<static_mark, version, loaded, calls>>
          /\ result' = [op |-> "execute", ok |-> es.ok, panic |-> es.panic,
                        value |-> es.value, instruction |-> inst,
                        branch_condition |-> es.branch_condition,
                        before |-> [cur |-> current_frame, stk |-> stack,
                                    mem |-> memory_map]]

NextRoutine ==
    \E inst \in RoutineInstructions, checks \in BOOLEAN : ExecuteInRoutine(inst, checks)

SpecRoutine == InitRoutine /\ [][NextRoutine]_vars

\* a dec_chk or inc_chk of local 1 in a frame that has it was executed
SteppedLocal ==
    /\ result.op = "execute"
    /\ result.instruction.opcode % 32 \in {4, 5}
    /\ result.instruction.operands[1] = 1
    /\ Len(result.before.cur.local_variables) >= 1

\* C26: dec_chk var, v decrements the variable by 1 as a signed 16-bit
\* number and the branch condition is: new value < v; inc_chk increments it
\* and the condition is: new value > v.  With local 1 = 5, dec_chk L01,#05
\* leaves 4 and a true condition, and inc_chk L01,#05 of local 1 = 4 leaves
\* 5 and a false condition.  The branch is taken when the condition is the
\* sense of the branch.
C26_StepAndCheck ==
    SteppedLocal =>
        LET inst == result.instruction
            down == inst.opcode % 32 = 4
            old == AsI16(result.before.cur.local_variables[1])
            new == IF down THEN old - 1 ELSE old + 1
            v == AsI16(inst.operands[2])
            condition == IF down THEN new < v ELSE new > v
            taken == condition = inst.branch_offset[1].condition
        IN  /\ result.ok
            /\ result.branch_condition = <<condition>>
            /\ (~taken \/ inst.branch_offset[1].return_value = None) =>
                  /\ stack = result.before.stk
                  /\ current_frame.local_variables[1] = AsU16(new)
                  /\ result.value = IF taken THEN inst.branch_offset[1].address
                                    ELSE inst.next_pc
            /\ (taken /\ inst.branch_offset[1].return_value # None) =>
                  /\ Len(stack) = Len(result.before.stk) - 1
                  /\ result.value = result.before.cur.return_address
            /\ (down /\ old = 5 /\ v = 5) => current_frame.local_variables[1] = 4 /\ condition
            /\ (~down /\ old = 4 /\ v = 5) => current_frame.local_variables[1] = 5 /\ ~condition

\* inc_chk L01,#05 has made 5 of the 4 that dec_chk L01,#05 left, and did
\* not branch
C26_Witness ==
    /\ SteppedLocal
    /\ result.instruction.opcode = 5
    /\ result.before.cur.local_variables[1] = 4
    /\ current_frame.local_variables[1] = 5
    /\ result.branch_condition = <<FALSE>>
    /\ result.value = 100

\* the value of global 16 in a routine story
RoutineGlobal(m) == get_word(m, RoutineGlobals).value

\* the frame has been left with the value: the caller is current again,
\* the value is in the variable the call named, and the pc is the return
\* address
ReturnedWith(value) ==
    LET before == result.before
        caller == before.stk[Len(before.stk)]
        variable == before.cur.return_variable
    IN  /\ result.ok
        /\ stack = SubSeq(before.stk, 1, Len(before.stk) - 1)
        /\ result.value = before.cur.return_address
        /\ variable = 16 => current_frame = caller /\ RoutineGlobal(memory_map) = value
        /\ variable = 0 =>
              /\ current_frame = [caller EXCEPT !.stack = Append(@, value)]
              /\ memory_map = before.mem

\* the frame has been kept and the value, if any, stored in the store
\* variable of the instruction
StoredInFrame(value) ==
    LET before == result.before
        variable == result.instruction.store_variable
    IN  /\ stack = before.stk
        /\ variable = None => current_frame = before.cur /\ memory_map = before.mem
        /\ variable = 16 => current_frame = before.cur /\ RoutineGlobal(memory_map) = value
        /\ variable = 0 =>
              /\ current_frame = [before.cur EXCEPT !.stack = Append(@, value)]
              /\ memory_map = before.mem

\* the effects of an instruction other than a call that has run in a frame
\* with a caller, or without leaving its frame: a return instruction
\* leaves the frame; get_child stores the child in the frame and then
\* branches when there is one; jz #00 branches; a branch that is not taken
\* and an instruction without one lead to the next pc
EffectsInOrder ==
    LET inst == result.instruction
        before == result.before
        returns == inst.opcode \in {155, 176, 177}
        child == IF inst.operands = <<1>> THEN 2 ELSE 0
        value == IF inst.opcode = 146 THEN child ELSE None
        condition == IF inst.opcode = 146 THEN child # 0 ELSE TRUE
        taken == inst.branch_offset # <<>> /\ condition = inst.branch_offset[1].condition
    IN  /\ (returns /\ Len(before.stk) > 0) =>
              ReturnedWith(IF inst.opcode = 155 THEN inst.operands[1]
                           ELSE IF inst.opcode = 176 THEN 1 ELSE 0)
        /\ (inst.opcode \in {144, 146} /\ taken
              /\ inst.branch_offset[1].return_value # None /\ Len(before.stk) > 0) =>
              ReturnedWith(inst.branch_offset[1].return_value)
        /\ (inst.opcode \in {144, 146} /\ taken
              /\ inst.branch_offset[1].return_value = None) =>
              result.ok /\ result.value = inst.branch_offset[1].address /\ StoredInFrame(value)
        /\ (inst.opcode \in {144, 146} /\ ~taken) =>
              result.ok /\ result.value = inst.next_pc /\ StoredInFrame(value)

\* a call of the routine: the caller is kept as it was under the new
\* frame, nothing is stored, and the pc is the routine's first instruction
CallStoresNothing ==
    /\ result.ok
    /\ memory_map = result.before.mem
    /\ stack = Append(result.before.stk, result.before.cur)
    /\ current_frame.return_variable = result.instruction.store_variable
    /\ current_frame.local_variables = <<5>>
    /\ result.value = RoutineAddress + 3

\* C29 as stated: after the body, execute stores first (when the
\* instruction has a store variable and the body produced a value), then
\* branches when the condition is the sense of the branch (offsets 0 and 1
\* return that value from the frame, any other jumps), and otherwise goes
\* to the body's next pc or the decoded one; a call instruction writes
\* nothing to its store variable, which only the matching return writes.
C29_StoreThenBranch ==
    result.op = "execute" =>
        /\ EffectsInOrder
        /\ result.instruction.opcode = 224 =>
              /\ result.ok
              /\ memory_map = result.before.mem
              /\ result.instruction.operands[1] # 0 => CallStoresNothing

\* C29, amended: the same, but a call instruction writes nothing to its
\* store variable only when it calls a routine; a call of the packed
\* address 0 stores 0 at once and goes on to the next instruction.
C29_StoreThenBranchCallZero ==
    result.op = "execute" =>
        /\ EffectsInOrder
        /\ (result.instruction.opcode = 224 /\ result.instruction.operands[1] # 0) =>
              CallStoresNothing
        /\ (result.instruction.opcode = 224 /\ result.instruction.operands[1] = 0) =>
              /\ result.ok
              /\ result.value = result.instruction.next_pc
              /\ StoredInFrame(0)

\* get_child #01 -> (SP) ?rtrue has run in the routine called with G00 as
\* store variable: the child went to the stack of the frame that was left,
\* and 1 to G00
C29_Witness ==
    /\ result.op = "execute"
    /\ result.instruction.opcode = 146
    /\ result.instruction.store_variable = 0
    /\ result.instruction.operands = <<1>>
    /\ Len(result.before.stk) = 1
    /\ result.before.cur.return_variable = 16
    /\ result.ok
    /\ RoutineGlobal(memory_map) = 1
    /\ RoutineGlobal(result.before.mem) # 1
    /\ current_frame = result.before.stk[1]

(***************************************************************************)
(* Decoding the branch of a version 3 instruction at $1000, the initial pc *)
(* of the story: verify, jz #00 and je #01,#01 followed by two bytes.      *)
(***************************************************************************)
BranchStart == 4096

\* the bytes of the instruction before its branch data
BranchPrograms == {<<189>>, <<144, 0>>, <<1, 1, 1>>}

\* $c3, $80, $c0 and other first bytes: a false sense, offset 1, a
\* negative long offset, a long offset of more than one byte
BranchFirstBytes == {195, 128, 192, 67, 0, 193, 191, 130}

BranchSecondBytes == {5, 0, 1, 255}

BranchImage(program, b1, b2) ==
    [a \in 0..(BranchStart + 7) |->
        IF a = 0 THEN 3
        ELSE IF a = 6 THEN HighByte(BranchStart)
        ELSE IF a = 7 THEN LowByte(BranchStart)
        ELSE IF a = 13 THEN 64
        ELSE IF a = 15 THEN 68
        ELSE IF a >= BranchStart /\ a < BranchStart + Len(program)
        THEN program[a - BranchStart + 1]
        ELSE IF a = BranchStart + Len(program) THEN b1
        ELSE IF a = BranchStart + Len(program) + 1 THEN b2
        ELSE 0]

InitBranch ==
    /\ \E program \in BranchPrograms, b1 \in BranchFirstBytes, b2 \in BranchSecondBytes :
          \E image \in {BranchImage(program, b1, b2)} :
              /\ Load(image)
              /\ current_frame = FirstFrame(image)
    /\ stack = <<>>
    /\ calls = <<>>
    /\ result = [op |-> "new", ok |-> TRUE, panic |-> FALSE]

\* the decode_instruction of the main loop at the pc of the frame
DecodeAtPc ==
    /\ result.op = "new"
    /\ \E d \in {decode_instruction(memory_map, current_frame.pc)} :
          result' = [op |-> "decode", ok |-> ~d.panic, panic |-> d.panic,
                     instruction |-> d.instruction]
    /\ UNCHANGED <<memory_map, static_mark, version, loaded, current_frame, stack, calls>>

NextBranch == DecodeAtPc

SpecBranch == InitBranch /\ [][NextBranch]_vars

\* where the branch data of the decoded instruction begins
BranchData ==
    result.instruction.address + 1 + Len(result.instruction.operands)

\* the first and the second byte of the branch data
BranchByte(i) == memory_map[BranchData + i - 1]

\* the decoded branch, and the number of bytes of its data
TheBranch == result.instruction.branch_offset[1]

BranchSize == result.instruction.next_pc - BranchData

\* C27 as stated: for an instruction at $1000 the branch byte $c3 is a
\* short branch on true to $1003, the bytes $80 $05 are a long branch to
\* $1005, and $c0 is `return false'.
C27_BranchTargets ==
    (result.op = "decode" /\ result.instruction.address = 4096) =>
        /\ BranchByte(1) = 195 =>
              TheBranch.condition /\ BranchSize = 1 /\ TheBranch.address = 4099
        /\ (BranchByte(1) = 128 /\ BranchByte(2) = 5) =>
              BranchSize = 2 /\ TheBranch.address = 4101
        /\ BranchByte(1) = 192 => TheBranch.return_value = 0 /\ TheBranch.address = None

\* C27, amended: the offset counts from the end of the branch data, less
\* 2.  For a verify at $1000, whose branch data is at $1001, $c3 is a short
\* branch on true to $1003, $80 $05 a long branch on true to $1006, and $c0
\* is `return false'; in every instruction offsets 0 and 1 return, and any
\* other offset leads to the address after the branch data + offset - 2.
C27_BranchTargetsAfterData ==
    (result.op = "decode" /\ result.instruction.address = 4096) =>
        LET short == (BranchByte(1) \div 64) % 2 = 1
            low == BranchByte(1) % 64
            offset == IF short THEN low
                      ELSE IF low >= 32 THEN (low - 64) * 256 + BranchByte(2)
                      ELSE low * 256 + BranchByte(2)
        IN  /\ result.ok
            /\ TheBranch.condition = (BranchByte(1) >= 128)
            /\ BranchSize = IF short THEN 1 ELSE 2
            /\ offset \in {0, 1} => TheBranch.return_value = offset /\ TheBranch.address = None
            /\ offset \notin {0, 1} =>
                  /\ TheBranch.return_value = None
                  /\ TheBranch.address = BranchData + BranchSize + offset - 2
            /\ result.instruction.opcode = 189 =>
                  /\ BranchByte(1) = 195 =>
                        TheBranch.condition /\ BranchSize = 1 /\ TheBranch.address = 4099
                  /\ (BranchByte(1) = 128 /\ BranchByte(2) = 5) =>
                        TheBranch.condition /\ BranchSize = 2 /\ TheBranch.address = 4102
                  /\ BranchByte(1) = 192 =>
                        TheBranch.return_value = 0 /\ TheBranch.address = None

\* the long branch $80 $05 of a verify at $1000 was decoded
C27_Witness ==
    /\ result.op = "decode"
    /\ result.instruction.address = 4096
    /\ result.instruction.opcode = 189
    /\ BranchByte(1) = 128
    /\ BranchByte(2) = 5
    /\ TheBranch.address = 4102

(***************************************************************************)
(* The random instruction.  rng.gen_range(0, range) draws `sample` from    *)
(* 0 .. range - 1 and panics when that range is empty.                     *)
(***************************************************************************)
\* FrameStack::random
FrameStackRandom(range, sample) ==
    IF range = 0 THEN [ok |-> FALSE, panic |-> TRUE, value |-> -1]
    ELSE [ok |-> TRUE, panic |-> FALSE, value |-> sample + 1]

\* Instruction::random
random(inst, es, sample) ==
    Bind(get_argument(inst, es, 0), LAMBDA range :
        IF ~range.ok THEN range
        ELSE Bind(FrameStackRandom(range.value, sample), LAMBDA value :
            IF ~value.ok THEN [range EXCEPT !.ok = FALSE, !.panic = value.panic]
            ELSE [range EXCEPT !.store_value = value.value]))

\* Instruction::execute of a random instruction (VAR opcode 7)
execute_random(inst, fs, ver, sample) ==
    IF ver # 3 THEN [Started(fs) EXCEPT !.ok = FALSE]
    ELSE Bind(random(inst, Started(fs), sample), LAMBDA done :
             IF ~done.ok THEN done
             ELSE Bind(Stored(inst, done), LAMBDA stored :
                      IF ~stored.ok THEN stored ELSE Branched(inst, stored)))

\* 0, small ranges, the ends of the i16 range and -1
RandomRanges == {0, 1, 2, 3, 6, 32767, 32768, 65535}

RandomSamples == {0, 1, 2, 5, 32766, 32767, 65534}

\* random #range -> G00
RandomInstructions ==
    { Decoded(231, <<"LargeConstant">>, <<range>>, 16, <<>>) : range \in RandomRanges }

ExecuteRandom(inst, sample) ==
    /\ ~Panicked
    /\ inst.operands[1] = 0 \/ sample < inst.operands[1]
    /\ \E es \in {execute_random(inst, FsState, version, sample)} :
          /\ memory_map' = es.fs.mem
          /\ current_frame' = es.fs.cur
          /\ stack' = es.fs.stk
          /\ UNCHANGED <<static_mark, version, loaded, calls>>
          /\ result' = [op |-> "random", ok |-> es.ok, panic |-> es.panic,
                        value |-> es.value, range |-> inst.operands[1],
                        before |-> memory_map]

InitRandom ==
    /\ Load(ExecImage(3))
    /\ current_frame = FirstFrame(ExecImage(3))
    /\ stack = <<>>
    /\ calls = <<>>
    /\ result = [op |-> "new", ok |-> TRUE, panic |-> FALSE]

NextRandom ==
    \E inst \in RandomInstructions, sample \in RandomSamples : ExecuteRandom(inst, sample)

SpecRandom == InitRandom /\ [][NextRandom]_vars

\* C28: random r never fails; it stores a value of 1..r when r > 0 as a
\* signed number, and 0 when r < 0 and when r = 0.
C28_RandomRange ==
    result.op = "random" =>
        LET r == AsI16(result.range)
            stored == get_word(memory_map, GlobalsBase(loaded)).value
        IN  /\ result.ok
            /\ r > 0 => stored \in 1..r
            /\ r <= 0 => stored = 0

\* the part of C28 that the code keeps: a positive range r gives 1..r
RandomInRange ==
    (result.op = "random" /\ AsI16(result.range) > 0) =>
        /\ result.ok
        /\ get_word(memory_map, GlobalsBase(loaded)).value \in 1..result.range

(***************************************************************************)
(* Variable 0 named by the instructions that take a variable reference:    *)
(* the first frame of the story with global 16, its stack built by push.   *)
(***************************************************************************)
\* what decode_instruction makes of the instructions named on the right
StackTopInstructions ==
    { Decoded(232, <<"SmallConstant">>, <<3>>, None, <<>>),      \* push #03
      Decoded(232, <<"SmallConstant">>, <<0>>, None, <<>>),      \* push #00
      Decoded(13, <<"SmallConstant", "SmallConstant">>, <<0, 5>>,
              None, <<>>),                                        \* store (SP),#05
      Decoded(158, <<"SmallConstant">>, <<0>>, 16, <<>>),        \* load (SP) -> G00
      Decoded(149, <<"SmallConstant">>, <<0>>, None, <<>>),      \* inc (SP)
      Decoded(150, <<"SmallConstant">>, <<0>>, None, <<>>),      \* dec (SP)
      Decoded(5, <<"SmallConstant", "SmallConstant">>, <<0, 3>>,
              None, BranchTo),                                    \* inc_chk (SP),#03
      Decoded(4, <<"SmallConstant", "SmallConstant">>, <<0, 3>>,
              None, BranchTo) }                                   \* dec_chk (SP),#03

InitStackTop ==
    /\ Load(ExecImage(3))
    /\ current_frame = FirstFrame(ExecImage(3))
    /\ stack = <<>>
    /\ calls = <<>>
    /\ result = [op |-> "new", ok |-> TRUE, panic |-> FALSE]

NextStackTop ==
    \E inst \in StackTopInstructions, checks \in BOOLEAN : Execute(inst, checks)

SpecStackTop == InitStackTop /\ [][NextStackTop]_vars

\* an instruction that names variable 0 has run on a stack that was not
\* empty
NamedStackTop(opcodes) ==
    /\ result.op = "execute"
    /\ result.instruction.opcode \in opcodes
    /\ result.instruction.operands[1] = 0
    /\ result.before # <<>>

\* the stack is as deep as before and only its top may differ: it is now
\* `top`
TopReplacedBy(top) ==
    /\ result.ok
    /\ Len(current_frame.stack) = Len(result.before)
    /\ \A i \in 1..(Len(result.before) - 1) : current_frame.stack[i] = result.before[i]
    /\ current_frame.stack[Len(result.before)] = top

\* the top of the stack before the instruction
TopBefore == result.before[Len(result.before)]

\* load, inc, dec, inc_chk and dec_chk of variable 0 work on the top of the
\* stack in place
OthersInPlace ==
    /\ NamedStackTop({158}) => TopReplacedBy(TopBefore)
    /\ NamedStackTop({149, 5}) => TopReplacedBy(TopBefore + 1)
    /\ (NamedStackTop({150, 4}) /\ TopBefore > 0) => TopReplacedBy(TopBefore - 1)

\* C30: store var, v with var = 0 replaces the top of the stack by v and
\* leaves the depth of the stack as it was; load, inc, dec, inc_chk and
\* dec_chk on variable 0 read or update the top in place in the same way.
C30_VariableZeroInPlace ==
    /\ NamedStackTop({13}) => TopReplacedBy(result.instruction.operands[2])
    /\ OthersInPlace

(***************************************************************************)
(* Decoding instructions of every form at $1000 in stories of version 3    *)
(* and 5: the bytes of the instruction, two bytes that vary, then zeros.   *)
(***************************************************************************)
DecodeVersions == {3, 5}

\* call_vs2 and call_vn2 with two type bytes; clear_attr, call_2n and je in
\* variable form; call; add, jz, rtrue, print and print_ret; the extended
\* opcodes 2 (log_shift, which stores) and 6 (picture_data, which branches)
DecodePrograms ==
    { <<236, 95, 255, 1, 2>>, <<250, 95, 127, 1, 2, 3>>,
      <<204, 95, 255, 2>>, <<204, 95, 1, 2>>, <<218, 95, 255, 2>>, <<193, 95, 1, 2>>,
      <<224, 63, 0, 82>>, <<84, 16, 1>>, <<144, 0>>, <<176>>,
      <<178>>, <<179, 17, 34>>,
      <<190, 2, 95, 1, 2>>, <<190, 6, 127, 1>> }

DecodeFirstBytes == {0, 5, 128, 195}

DecodeSecondBytes == {0, 255}

DecodePadding == 12

DecodeImage(ver, program, b1, b2) ==
    [a \in 0..(BranchStart + 1 + DecodePadding + Len(program)) |->
        IF a = 0 THEN ver
        ELSE IF a = 6 THEN HighByte(BranchStart)
        ELSE IF a = 7 THEN LowByte(BranchStart)
        ELSE IF a = 13 THEN 64
        ELSE IF a = 15 THEN 68
        ELSE IF a >= BranchStart /\ a < BranchStart + Len(program)
        THEN program[a - BranchStart + 1]
        ELSE IF a = BranchStart + Len(program) THEN b1
        ELSE IF a = BranchStart + Len(program) + 1 THEN b2
        ELSE 0]

InitDecode ==
    /\ \E ver \in DecodeVersions, program \in DecodePrograms,
          b1 \in DecodeFirstBytes, b2 \in DecodeSecondBytes :
          \E image \in {DecodeImage(ver, program, b1, b2)} :
              /\ Load(image)
              /\ current_frame = FirstFrame(image)
    /\ stack = <<>>
    /\ calls = <<>>
    /\ result = [op |-> "new", ok |-> TRUE, panic |-> FALSE]

NextDecode == DecodeAtPc

SpecDecode == InitDecode /\ [][NextDecode]_vars

\* an instruction has been decoded
WasDecoded == result.op = "decode" /\ result.ok

\* the first byte of the decoded instruction
OpcodeByte == memory_map[result.instruction.address]

\* the operand types that the type bytes at address + 1 .. address + n give
TypesOfBytes(n) ==
    IF n = 0 THEN <<>>
    ELSE IF n = 1 THEN TypesOfByte(memory_map[result.instruction.address + 1])
    ELSE TypesOfByte(memory_map[result.instruction.address + 1])
         \o TypesOfByte(memory_map[result.instruction.address + 2])

\* C31: in variable form one operand-type byte is consumed, and a second
\* one only for call_vs2 and call_vn2 (opcode bytes $ec and $fa); the
\* variable-form 2OP instructions $cc and $da consume a single type byte.
C31_TypeBytes ==
    (WasDecoded /\ result.instruction.form = "Variable") =>
        result.instruction.operand_types =
            TypesOfBytes(IF OpcodeByte \in {236, 250} THEN 2 ELSE 1)

\* the part of C31 that the code keeps: VAR instructions take one type
\* byte, call_vs2 and call_vn2 two
TypeBytesOfVar ==
    (WasDecoded /\ result.instruction.form = "Variable" /\ OpcodeByte >= 224) =>
        result.instruction.operand_types =
            TypesOfBytes(IF OpcodeByte \in {236, 250} THEN 2 ELSE 1)

\* the bytes of the operands of the decoded instruction: one for each, and
\* one more for a large constant
OperandBytes ==
    Len(result.instruction.operand_types)
    + Cardinality({i \in 1..Len(result.instruction.operand_types) :
                      result.instruction.operand_types[i] = "LargeConstant"})

\* next_pc is the address plus n type bytes and the other bytes in their
\* order: opcode, types, operands, store, branch, literal string
NextPcWith(n) ==
    LET inst == result.instruction
        opcodes == IF inst.form = "Extended" THEN 2 ELSE 1
        stores == IF HasStore(memory_map, inst.opcode, inst.form) THEN 1 ELSE 0
        branch_at == inst.address + opcodes + n + OperandBytes + stores
        branches == IF ~HasBranch(memory_map, inst.opcode, inst.form) THEN 0
                    ELSE IF (memory_map[branch_at] \div 64) % 2 = 1 THEN 1 ELSE 2
        literal == IF inst.form # "Extended" /\ OpcodeByte \in {178, 179}
                   THEN LiteralFrom(memory_map, branch_at + branches, 0).size
                   ELSE 0
    IN  /\ stores = 1 <=> inst.store_variable # None
        /\ branches > 0 <=> inst.branch_offset # <<>>
        /\ inst.next_pc = branch_at + branches + literal

\* the number of type bytes a form can have
TypeByteCounts(form) == IF form \in {"Long", "Short"} THEN {0} ELSE {1, 2}

\* C32: next_pc of a decoded instruction is its address plus the bytes
\* consumed, in this order: opcode byte(s), operand-type byte(s), 1 byte
\* for each small constant or variable operand and 2 for each large
\* constant, 1 store byte if the opcode stores, 1 or 2 branch bytes if it
\* branches, and for print and print_ret the words of the inline string
\* up to and including the first with bit 15 set.
C32_NextPc ==
    WasDecoded => \E n \in TypeByteCounts(result.instruction.form) : NextPcWith(n)

\* the part of C32 that the code keeps: the instructions that are not of
\* the extended form
NextPcOfPlainForms ==
    (WasDecoded /\ result.instruction.form # "Extended") =>
        \E n \in TypeByteCounts(result.instruction.form) : NextPcWith(n)

\* the offset that the branch data of the decoded instruction holds: six
\* bits of one byte when bit 6 is set, else fourteen bits of two, signed
BranchOffsetInImage ==
    LET low == BranchByte(1) % 64
    IN  IF (BranchByte(1) \div 64) % 2 = 1 THEN low
        ELSE IF low >= 32 THEN low * 256 + BranchByte(2) - 16384
        ELSE low * 256 + BranchByte(2)

\* C33: bit 7 of the first byte of the branch data is the sense of the
\* branch; bit 6 set means an unsigned offset of 6 bits in one byte, clear
\* a signed offset of 14 bits in two bytes; offset 0 means return 0 and
\* offset 1 return 1; any other offset, negative ones too, gives the
\* target (address of the byte after the branch data) + offset - 2.
C33_BranchDecoding ==
    (result.op = "decode" /\ result.instruction.branch_offset # <<>>) =>
        LET short == (BranchByte(1) \div 64) % 2 = 1
            after == BranchData + (IF short THEN 1 ELSE 2)
        IN  /\ TheBranch.condition <=> (BranchByte(1) \div 128) % 2 = 1
            /\ result.instruction.next_pc = after
            /\ BranchOffsetInImage \in (IF short THEN 0..63 ELSE -8192..8191)
            /\ IF BranchOffsetInImage \in {0, 1}
               THEN TheBranch.return_value = BranchOffsetInImage
                    /\ TheBranch.address = None
               ELSE TheBranch.return_value = None
                    /\ TheBranch.address = after + BranchOffsetInImage - 2

\* a negative long offset was decoded: $bf $ff is -1, three bytes before
\* the byte after the branch data
C33_Witness ==
    /\ result.op = "decode"
    /\ result.instruction.branch_offset # <<>>
    /\ BranchByte(1) = 191
    /\ BranchByte(2) = 255
    /\ BranchOffsetInImage = -1
    /\ TheBranch.address = BranchData - 1

(***************************************************************************)
(* sread in a version 3 story: the two objects above, three globals (the   *)
(* first names object 1 for the status line), a text buffer, a parse       *)
(* buffer for ReadMaxWords words with dynamic memory behind it, and a      *)
(* dictionary of "." and "a" whose separator is ".".                       *)
(***************************************************************************)
\* Encoder::to_bytes of one character
CharToBytes(c) ==
    IF c > 31 /\ c < 127 THEN <<c>>
    ELSE IF IndexOf(zscii_table, c) # 0 THEN <<155 + IndexOf(zscii_table, c) - 1>>
    ELSE <<>>

RECURSIVE to_bytes(_)
\* Encoder::to_bytes
to_bytes(text) ==
    IF text = <<>> THEN <<>> ELSE CharToBytes(Head(text)) \o to_bytes(Tail(text))

\* Instruction::show_status: variables 17, 18 and 16 are read, the object
\* that variable 16 names is loaded and its name handed to the interface
show_status(es, checks) ==
    Bind(BodyRead(es, 17, FALSE), LAMBDA v1 :
        IF ~v1.ok THEN v1
        ELSE Bind(BodyRead(v1, 18, FALSE), LAMBDA v2 :
            IF ~v2.ok THEN v2
            ELSE Bind(BodyRead(v2, 16, FALSE), LAMBDA name_obj :
                IF ~name_obj.ok THEN name_obj
                ELSE Bind(get_object(name_obj.fs.mem, ObjectTableAddress(name_obj.fs.mem),
                                     name_obj.value, checks), LAMBDA o :
                    IF o.outcome # "ok"
                    THEN [name_obj EXCEPT !.ok = FALSE, !.panic = o.outcome = "panic",
                                          !.value = -1]
                    ELSE [name_obj EXCEPT
                             !.log = Append(@, [ev |-> "status", n |-> name_obj.value])]))))

RECURSIVE SetBytes(_, _, _, _, _)
\* sread_v1, the loop that writes input_bytes[i ..] from text_buffer + i + 2
SetBytes(m, mark, text_buffer, input_bytes, i) ==
    IF i >= Len(input_bytes) THEN [ok |-> TRUE, mem |-> m]
    ELSE Bind(set_byte(m, mark, text_buffer + i + 2, input_bytes[i + 1]), LAMBDA set :
             IF ~set.ok THEN set
             ELSE SetBytes(set.mem, mark, text_buffer, input_bytes, i + 1))

\* sread_v1 once the line is read: `read` is what interface.read returned,
\* the line and the key that ended it
StoreAndParse(es, ver, text_buffer, parse_buffer, read, checks) ==
    LET input == SubSeq(read, 1, Len(read) - 1)
        input_bytes == Append(to_bytes(input), 0)
        failed == [es EXCEPT !.ok = FALSE, !.value = -1]
    IN  Bind(set_byte(es.fs.mem, es.fs.mark, text_buffer + 1, ByteLen(input) % 256),
             LAMBDA length :
        IF ~length.ok THEN failed
        ELSE Bind(SetBytes(length.mem, es.fs.mark, text_buffer, input_bytes, 0),
                  LAMBDA stored :
             IF ~stored.ok THEN [failed EXCEPT !.fs.mem = stored.mem]
             ELSE IF ~get_byte(stored.mem, parse_buffer).ok
             THEN [failed EXCEPT !.fs.mem = stored.mem]
             ELSE Bind(DictionaryNew(stored.mem), LAMBDA dic :
                  IF ~dic.ok THEN [failed EXCEPT !.fs.mem = stored.mem]
                  ELSE Bind(analyze_text(dic, stored.mem, es.fs.mark, ver, input,
                                         parse_buffer, checks), LAMBDA analyzed :
                       [es EXCEPT !.ok = analyzed.ok, !.panic = analyzed.panic,
                                  !.fs.mem = analyzed.mem,
                                  !.log = Append(@, [ev |-> "tokens",
                                                     n |-> Len(analyzed.words)])]))))

\* the length interface.read allows: get_byte(text_buffer) as usize - 1,
\* which underflows for 0
MaxChars(m, text_buffer, checks) ==
    LET size == get_byte(m, text_buffer)
    IN  IF ~size.ok THEN [ok |-> FALSE, panic |-> FALSE, value |-> -1]
        ELSE IF size.value = 0
        THEN [ok |-> ~checks, panic |-> checks, value |-> 2147483647]
        ELSE [ok |-> TRUE, panic |-> FALSE, value |-> size.value - 1]

\* Curses::read: a character is taken while the bytes of the line so far are
\* fewer than max_chars, then the key that ends the line is appended
ReadReturns(read, max_chars) ==
    /\ Len(read) > 0
    /\ read[Len(read)] \in {10, 13}
    /\ \A k \in 1..(Len(read) - 1) :
          /\ read[k] \in (32..126) \cup (156..255)
          /\ ByteLen(SubSeq(read, 1, k - 1)) < max_chars

\* Instruction::sread_v1
sread_v1(inst, es, ver, read, checks) ==
    Bind(show_status(es, checks), LAMBDA shown :
        IF ~shown.ok THEN shown
        ELSE Bind(get_argument(inst, shown, 0), LAMBDA text_buffer :
            IF ~text_buffer.ok THEN text_buffer
            ELSE Bind(get_argument(inst, text_buffer, 1), LAMBDA parse_buffer :
                IF ~parse_buffer.ok THEN parse_buffer
                ELSE Bind(MaxChars(parse_buffer.fs.mem, text_buffer.value, checks),
                          LAMBDA max_chars :
                    IF ~max_chars.ok
                    THEN [parse_buffer EXCEPT !.ok = FALSE, !.panic = max_chars.panic,
                                              !.value = -1]
                    ELSE IF ~ReadReturns(read, max_chars.value)
                    THEN [parse_buffer EXCEPT !.ok = FALSE, !.value = -2]
                    ELSE StoreAndParse(parse_buffer, ver, text_buffer.value,
                                       parse_buffer.value, read, checks)))))

\* Instruction::execute of an sread instruction (VAR opcode 4)
execute_sread(inst, fs, ver, read, checks) ==
    IF ver # 3 THEN [Started(fs) EXCEPT !.ok = FALSE]
    ELSE Bind(sread_v1(inst, Started(fs), ver, read, checks), LAMBDA done :
             IF ~done.ok THEN done
             ELSE Bind(Stored(inst, done), LAMBDA stored :
                      IF ~stored.ok THEN stored ELSE Branched(inst, stored)))

ReadMaxLen == 2

ReadMaxWords == 1

ReadGlobals == PropLen

ReadText == ReadGlobals + 6

ReadParse == ReadText + ReadMaxLen + 3

\* the parse buffer is followed by dynamic memory for the words of any line
\* of ReadMaxLen characters
ReadMark == ReadParse + 2 + 4 * ReadMaxLen

ReadImage ==
    LET entries == ReadMark + 5
        stop == encode(3, <<46>>)
        a == encode(3, <<97>>)
    IN  [x \in 0..(entries + 13) |->
            IF x = 7 THEN 60
            ELSE IF x = 9 THEN ReadMark
            ELSE IF x = 13 THEN ReadGlobals
            ELSE IF x = 15 THEN ReadMark
            ELSE IF x < PropLen THEN PropImage[x]
            ELSE IF x = ReadGlobals + 1 THEN 1
            ELSE IF x = ReadText THEN ReadMaxLen + 1
            ELSE IF x = ReadParse THEN ReadMaxWords
            ELSE IF x = ReadMark THEN 1
            ELSE IF x = ReadMark + 1 THEN 46
            ELSE IF x = ReadMark + 2 THEN 7
            ELSE IF x = ReadMark + 4 THEN 2
            ELSE IF x = entries THEN HighByte(stop[1])
            ELSE IF x = entries + 1 THEN LowByte(stop[1])
            ELSE IF x = entries + 2 THEN HighByte(stop[2])
            ELSE IF x = entries + 3 THEN LowByte(stop[2])
            ELSE IF x = entries + 7 THEN HighByte(a[1])
            ELSE IF x = entries + 8 THEN LowByte(a[1])
            ELSE IF x = entries + 9 THEN HighByte(a[2])
            ELSE IF x = entries + 10 THEN LowByte(a[2])
            ELSE 0]

\* space, full stop, A, a and a-umlaut
ReadChars == {32, 46, 65, 97, 228}

\* the lines that can be typed, ended by Enter
ReadLines == {Append(line, 10) : line \in UNION {[1..n -> ReadChars] : n \in 0..ReadMaxLen}}

\* sread text, parse
ReadInstruction ==
    Decoded(228, <<"SmallConstant", "SmallConstant">>, <<ReadText, ReadParse>>, None, <<>>)

InitRead ==
    /\ \E image \in {ReadImage} :
          /\ Load(image)
          /\ current_frame = FirstFrame(image)
    /\ stack = <<>>
    /\ calls = <<>>
    /\ result = [op |-> "new", ok |-> TRUE, panic |-> FALSE]

ExecuteRead(read, checks) ==
    /\ ~Panicked
    /\ \E es \in {execute_sread(ReadInstruction, FsState, version, read, checks)} :
          /\ es.value # -2
          /\ memory_map' = es.fs.mem
          /\ current_frame' = es.fs.cur
          /\ stack' = es.fs.stk
          /\ UNCHANGED <<static_mark, version, loaded, calls>>
          /\ result' = [op |-> "sread", ok |-> es.ok, panic |-> es.panic,
                        input |-> SubSeq(read, 1, Len(read) - 1), log |-> es.log]

NextRead == \E read \in ReadLines, checks \in BOOLEAN : ExecuteRead(read, checks)

SpecRead == InitRead /\ [][NextRead]_vars

\* the bytes of the text buffer from `first` that hold the line typed, and
\* the byte after them
StoredFrom(first, line) ==
    /\ \A k \in 1..Len(line) : memory_map[ReadText + first + k - 1] = line[k]
    /\ memory_map[ReadText + first + Len(line)] = 0

\* every offset of the parse buffer names a byte of the text buffer that
\* holds a character of a word
PointsAtText ==
    \A i \in 1..memory_map[ReadParse + 1] :
        memory_map[ReadText + memory_map[ReadParse + 4 * i + 1]] \notin {0, 32}

\* C34: in version 3 a successful sread leaves the line, lowercased and
\* ended by a 0, in the text buffer from byte 1 on, with no length byte,
\* and every offset of the parse buffer names the byte of the text buffer
\* that holds the first character of its lexeme.
C34_TextBufferLayout ==
    (result.op = "sread" /\ result.ok) =>
        /\ StoredFrom(1, to_bytes(to_lowercase(result.input)))
        /\ PointsAtText

\* what the code does instead: the length at byte 1 and the line as typed
\* from byte 2 on
TextAfterLength ==
    (result.op = "sread" /\ result.ok) =>
        /\ memory_map[ReadText + 1] = ByteLen(result.input)
        /\ StoredFrom(2, to_bytes(result.input))
        /\ PointsAtText

\* C39: after a successful sread the number of lexemes at byte 1 of the
\* parse buffer is at most the number of words at its byte 0, and no entry
\* is written beyond that many entries of four bytes.
C39_ParseBufferCapacity ==
    (result.op = "sread" /\ result.ok) =>
        /\ memory_map[ReadParse + 1] <= memory_map[ReadParse]
        /\ \A x \in (ReadParse + 2 + 4 * memory_map[ReadParse])..(ReadMark - 1) :
              memory_map[x] = loaded[x]

(***************************************************************************)
(* The ten-bit escape: a version 3 story whose string at ZsciiText is the  *)
(* z-characters 5, 6, hi, lo and two pads.                                 *)
(***************************************************************************)
ZsciiText == 64

ZsciiCodes == 0..31

ZsciiImage(hi, lo) ==
    LET first == 5 * 1024 + 6 * 32 + hi
        second == 32768 + lo * 1024 + 5 * 32 + 5
    IN  [x \in 0..(ZsciiText + 3) |->
            IF x = 0 THEN 3
            ELSE IF x = 15 THEN ZsciiText
            ELSE IF x = ZsciiText THEN HighByte(first)
            ELSE IF x = ZsciiText + 1 THEN LowByte(first)
            ELSE IF x = ZsciiText + 2 THEN HighByte(second)
            ELSE IF x = ZsciiText + 3 THEN LowByte(second)
            ELSE 0]

InitZscii ==
    /\ \E hi \in ZsciiCodes, lo \in ZsciiCodes : Load(ZsciiImage(hi, lo))
    /\ current_frame = NoFrame
    /\ stack = <<>>
    /\ calls = <<>>
    /\ result = [op |-> "new", ok |-> TRUE, panic |-> FALSE]

\* Decoder::decode of the string at ZsciiText
DecodeText ==
    /\ \E r \in {decode(memory_map, ZsciiText)} :
          result' = [op |-> "decode_text", ok |-> r.ok, panic |-> FALSE, text |-> r.text]
    /\ UNCHANGED <<memory_map, static_mark, version, loaded, current_frame, stack, calls>>

NextZscii == DecodeText

SpecZscii == InitZscii /\ [][NextZscii]_vars

\* the z-characters hi and lo of the string
ZsciiHigh == MakeWord(memory_map[ZsciiText], memory_map[ZsciiText + 1]) % 32

ZsciiLow == (memory_map[ZsciiText + 2] \div 4) % 32

\* C35: after z-character 5 the z-character 6 makes the next two, hi and
\* lo, the ZSCII code hi * 32 + lo, whose character is the text decoded,
\* for every code of ten bits; hi = 2 and lo = 1 give "A".
C35_TenBitEscape ==
    result.op = "decode_text" =>
        /\ result.ok
        /\ result.text = <<zscii_to_char(ZsciiHigh * 32 + ZsciiLow)>>
        /\ (ZsciiHigh = 2 /\ ZsciiLow = 1) => result.text = <<65>>

\* what the code decodes: the code that bit 0 of hi and the five bits of
\* lo make
EscapeOfSixBits ==
    result.op = "decode_text" =>
        /\ result.ok
        /\ result.text = <<zscii_to_char((ZsciiHigh % 2) * 32 + ZsciiLow)>>

(***************************************************************************)
(* main.rs on version 3 stories that count, push 3 and then come to an     *)
(* opcode that version 3 does not implement; where the opcode takes        *)
(* operands its operand is the top of the stack, which resolving would     *)
(* pop.                                                                    *)
(***************************************************************************)
\* push #3
PushThree == <<232, 127, 3>>

\* save, restore, restart, verify; split_window (SP), set_window (SP),
\* output_stream (SP), input_stream (SP), sound_effect (SP); 2OP:0 and
\* 2OP:25 of (SP),(SP); 1OP:8 (SP); 0OP:15; VAR:22 (SP) and VAR:31 (SP);
\* each followed by two nops
UnimplementedCodes ==
    { <<181>>, <<182>>, <<183>>, <<189>>,
      <<234, 191, 0>>, <<235, 191, 0>>, <<243, 191, 0>>, <<244, 191, 0>>,
      <<245, 191, 0>>,
      <<96, 0, 0>>, <<121, 0, 0>>, <<168, 0>>, <<191>>, <<246, 191, 0>>,
      <<255, 191, 0>> }

UnimplementedPrograms ==
    { CountingLoop \o PushThree \o code \o <<180, 180>> : code \in UnimplementedCodes }

InitUnimplemented ==
    /\ \E program \in UnimplementedPrograms, count \in 0..MainMaxCount :
          /\ Load(MainImage(program, count))
          /\ DictionaryNew(MainImage(program, count)).ok
          /\ current_frame = FirstFrame(MainImage(program, count))
    /\ stack = <<>>
    /\ calls = <<>>
    /\ result = [op |-> "loop", status |-> "running", pc |-> current_frame.pc,
                 exit_code |-> None, printed |-> <<>>, opcode |-> None,
                 failed |-> FALSE, panic |-> FALSE, log |-> <<>>,
                 before |-> [mem |-> memory_map, cur |-> current_frame, stk |-> stack]]

\* one turn of the loop of main, the error that execute returned printed
LoopStep(checks) ==
    /\ result.status = "running"
    /\ \E d \in {decode_instruction(memory_map, result.pc)} :
          /\ ~d.panic
          /\ \E es \in {execute(d.instruction, FsState, version, checks)} :
                /\ ~es.panic
                /\ memory_map' = es.fs.mem
                /\ current_frame' = es.fs.cur
                /\ stack' = es.fs.stk
                /\ result' =
                      [result EXCEPT
                          !.status = IF es.ok THEN "running" ELSE "waiting",
                          !.failed = ~es.ok,
                          !.pc = IF es.ok THEN es.value ELSE @,
                          !.printed = IF es.ok THEN @
                                      ELSE IF "error" \in DOMAIN es
                                      THEN Append(@, es.error)
                                      ELSE Append(@, <<"error">>),
                          !.opcode = d.instruction.opcode,
                          !.log = es.log,
                          !.before = [mem |-> memory_map, cur |-> current_frame,
                                      stk |-> stack]]
    /\ UNCHANGED <<static_mark, version, loaded, calls>>

NextUnimplemented ==
    \/ \E checks \in BOOLEAN : LoopStep(checks)
    \/ KeyPressed

SpecUnimplemented == InitUnimplemented /\ [][NextUnimplemented]_vars

\* the names of the opcodes whose functions version 3 dispatches to and
\* which only return an error
NotImplementedYet ==
    [b \in {181, 182, 183, 189, 234, 235, 243, 244, 245} |->
        CASE b = 181 -> "save_v1 not implemented yet"
          [] b = 182 -> "restore_v1 not implemented yet"
          [] b = 183 -> "restart not implemented yet"
          [] b = 189 -> "verify not implemented yet"
          [] b = 234 -> "split_window not implemented yet"
          [] b = 235 -> "set_window not implemented yet"
          [] b = 243 -> "output_stream not implemented yet"
          [] b = 244 -> "input_stream not implemented yet"
          [] b = 245 -> "sound_effect not implemented yet"]

\* the opcode bytes of the programs that no table of version 3 has
MissingNumbers == {96, 121, 168, 191, 246, 255}

\* the error printed names the opcode: by the name of its function, or by
\* its byte
NamesOpcode(error, opcode) ==
    IF opcode \in DOMAIN NotImplementedYet
    THEN Len(error) = 1 /\ error[1] = NotImplementedYet[opcode]
    ELSE Len(error) = 2 /\ error[1] = "Unimplemented opcode" /\ error[2] = opcode

\* C36: executing save, restore, restart, verify, split_window, set_window,
\* output_stream, input_stream, sound_effect or an opcode number that the
\* tables of version 3 lack returns an error that names the opcode; no
\* operand is resolved, memory and the frames are as they were, and the
\* loop of main executes nothing more.
C36_UnimplementedFails ==
    (result.op = "loop" /\ result.opcode \in DOMAIN NotImplementedYet \cup MissingNumbers) =>
        /\ result.failed
        /\ result.status # "running"
        /\ Len(result.printed) = 1
        /\ NamesOpcode(result.printed[1], result.opcode)
        /\ result.log = <<>>
        /\ memory_map = result.before.mem
        /\ current_frame = result.before.cur
        /\ stack = result.before.stk

\* split_window (SP) has failed with the 3 that was pushed still on the
\* stack, and main has returned
C36_Witness ==
    /\ result.op = "loop"
    /\ result.opcode = 234
    /\ result.status = "exited"
    /\ result.failed
    /\ current_frame.stack = <<3>>

\* C37: execute on a story whose version is not 3 returns the error of an
\* unsupported version; no operand is resolved and memory, the frame with
\* its locals and evaluation stack, and the stack of frames are as the
\* story was loaded.
C37_OtherVersionsFail ==
    (result.op = "execute" /\ version # 3) =>
        /\ ~result.ok
        /\ ~result.panic
        /\ result.error = <<"Unimplemented verison", version>>
        /\ result.log = <<>>
        /\ memory_map = loaded
        /\ current_frame = FirstFrame(loaded)
        /\ stack = <<>>

\* store G00,#3 was executed on a version 5 story
C37_Witness ==
    /\ result.op = "execute"
    /\ version = 5
    /\ result.instruction.opcode = 13
    /\ result.instruction.operands = <<16, 3>>
    /\ ~result.ok

(***************************************************************************)
(* Attribute numbers at and beyond attribute_count: 32 for the objects of  *)
(* the version 3 story, 48 for the flags of a version 4 or later object.   *)
(***************************************************************************)
\* the last attribute, the count and numbers beyond it
InvalidAttributes == {0, 31, 32, 33, 255}

InvalidWideNumbers == {47, 48, 49}

NextInvalidAttributes ==
    \/ \E n \in AttrObjects, a \in InvalidAttributes, checks \in BOOLEAN :
          SetAttribute(n, a, checks)
    \/ \E n \in AttrObjects, a \in InvalidAttributes, checks \in BOOLEAN :
          ClearAttribute(n, a, checks)
    \/ \E n \in AttrObjects, a \in InvalidAttributes, checks \in BOOLEAN :
          HasAttribute(n, a, checks)
    \/ \E attributes \in WideAttributes, a \in InvalidWideNumbers, checks \in BOOLEAN :
          HasAttributeWide(attributes, a, checks)

SpecInvalidAttributes == InitTree /\ [][NextInvalidAttributes]_vars

\* C38: for every attribute number from attribute_count on, the count
\* itself included, has_attribute returns an error and set_attribute and
\* clear_attribute return with the attributes as they were; none of them
\* fails on an underflow or a shift out of range.
C38_InvalidAttributeRejected ==
    /\ (result.op = "has_attribute" /\ result.attribute_number >= AttributeCount(3)) =>
          result.outcome = "err"
    /\ (result.op = "has_attribute_wide" /\ result.attribute_number >= AttributeCount(5)) =>
          result.outcome = "err"
    /\ (/\ result.op \in {"set_attribute", "clear_attribute"}
        /\ result.attribute_number >= AttributeCount(3)) =>
          /\ result.outcome = "ok"
          /\ memory_map = result.before

\* what the code keeps: the numbers above attribute_count
AboveCountRejected ==
    /\ (result.op = "has_attribute" /\ result.attribute_number > AttributeCount(3)) =>
          result.outcome = "err"
    /\ (result.op = "has_attribute_wide" /\ result.attribute_number > AttributeCount(5)) =>
          result.outcome = "err"
    /\ (/\ result.op \in {"set_attribute", "clear_attribute"}
        /\ result.attribute_number > AttributeCount(3)) =>
          /\ result.outcome = "ok"
          /\ memory_map = result.before

(***************************************************************************)
(* div on two large constants, the quotient stored in global 16.           *)
(***************************************************************************)
\* the variable form of div
DivInstructions ==
    { Decoded(215, <<"LargeConstant", "LargeConstant">>, <<a, b>>, 16, <<>>) :
        a \in ArithValues, b \in ArithValues }

NextDivide ==
    \E inst \in DivInstructions, checks \in BOOLEAN : ExecuteArithmetic(inst, checks)

SpecDivide == InitArith /\ [][NextDivide]_vars

\* the quotient of the signed values of the words a and b, b not 0, rounded
\* toward zero, as a word
QuotientWord(a, b) ==
    LET x == AsI16(a)
        y == AsI16(b)
        magnitude == (IF x < 0 THEN -x ELSE x) \div (IF y < 0 THEN -y ELSE y)
    IN  (IF (x < 0) = (y < 0) THEN magnitude ELSE -magnitude) % 65536

\* C40: div of any signed 16-bit dividend by any divisor other than 0
\* completes and stores the quotient rounded toward zero, modulo 2^16;
\* -32768 div -1 completes too.
C40_DivCompletes ==
    (/\ result.op = "arithmetic"
     /\ result.instruction.opcode = 215
     /\ result.instruction.operands[2] # 0) =>
        /\ result.ok
        /\ ~result.panic
        /\ result.stored = QuotientWord(result.instruction.operands[1],
                                        result.instruction.operands[2])

\* what the code keeps: every quotient but that of -32768 by -1
DivOfOtherOperands ==
    (/\ result.op = "arithmetic"
     /\ result.instruction.opcode = 215
     /\ result.instruction.operands[2] # 0
     /\ result.instruction.operands # <<32768, 65535>>) =>
        /\ result.ok
        /\ result.stored = QuotientWord(result.instruction.operands[1],
                                        result.instruction.operands[2])

====
